---- MODULE Spec2Model ----
(***************************************************************************)
(* apiproxyd: the single-flight coalescer (pkg/client/singleflight.go),    *)
(* the circuit breaker (pkg/client/circuitbreaker.go), the upstream client *)
(* (pkg/client/client.go), the proxy handler (pkg/daemon/daemon.go), the   *)
(* caches (pkg/cache: memory.go, layered.go, sqlite, postgres.go), the     *)
(* HTTP middlewares (pkg/middleware: ratelimit.go, security.go), the       *)
(* cleanup scheduler (pkg/daemon/scheduler.go) and the request counters    *)
(* (pkg/metrics/prometheus.go).                                            *)
(*                                                                         *)
(* Ten specifications share this module:                                   *)
(*   SpecSF       SingleFlight.Do called by concurrent callers             *)
(*   SpecCB       CircuitBreaker.Call called by overlapping callers, with  *)
(*                a clock                                                  *)
(*   SpecProxy    Daemon.handleProxy run by concurrent request goroutines  *)
(*   SpecMem      one MemoryCache called directly, with a clock            *)
(*   SpecCache    a LayeredCache over a MemoryCache and a durable cache,   *)
(*                called by concurrent goroutines, with a clock            *)
(*   SpecBucket   one tokenBucket called directly, with a clock            *)
(*   SpecGate     requests served one after the other by the handler chain *)
(*                of Daemon.Start, with a clock                            *)
(*   SpecShutdown the goroutine of Scheduler.Start beside the shutdown     *)
(*                statements of Daemon.Start                               *)
(*   SpecSweep    RateLimiter.allowIP called by concurrent goroutines      *)
(*                beside RateLimiter.cleanup, with a clock                 *)
(*   SpecStats    LayeredCache.Get called by concurrent goroutines, with   *)
(*                the counters of LayeredCache.Stats                       *)
(***************************************************************************)
EXTENDS Integers, Sequences, FiniteSets, TLC

(***************************************************************************)
(* Bounds of the model.                                                    *)
(***************************************************************************)
NCallers == 3        \* goroutines calling SingleFlight.Do in SpecSF
NHandlers == 2       \* request goroutines running handleProxy in SpecProxy
NProcs == 2          \* goroutines calling CircuitBreaker.Call in SpecCB
MaxCalls == 6        \* calls of CircuitBreaker.Call in one behaviour of SpecCB
MaxTime == 4         \* the clock runs from 0 to MaxTime
MaxThreshold == 3    \* threshold is drawn from 1..MaxThreshold
MaxTimeout == 2      \* timeout is drawn from 1..MaxTimeout
MaxHalfOpen == 2     \* halfOpenMax is drawn from 1..MaxHalfOpen
PxMaxTime == 2       \* the clock of SpecProxy runs from 0 to PxMaxTime
MaxBody == 1         \* cfg.Security.MaxRequestBodySize of the modelled daemon
MaxCap == 2          \* the capacity of the memory cache is drawn from 1..MaxCap
MaxTtl == 2          \* the TTLs are drawn from 1..MaxTtl
CcMaxTime == 2       \* the clock of SpecMem and SpecCache runs from 0 to CcMaxTime
NLcProcs == 2        \* goroutines calling the LayeredCache in SpecCache
MaxLcCalls == 3      \* LayeredCache calls in one behaviour of SpecCache
LcCap == 1           \* the capacity of L1 in SpecCache is drawn from 1..LcCap
TokUnit == 2         \* tokens of a bucket are counted in units of 1/TokUnit
MaxRate == 2         \* refill per tick, in those units, is drawn from 1..MaxRate
MaxBurst == 2        \* the burst of the bucket of SpecBucket is drawn from 1..MaxBurst
TbMaxTime == 3       \* the clock of SpecBucket runs from 0 to TbMaxTime
MaxTbCalls == 6      \* allow calls in one behaviour of SpecBucket
GtMaxTime == 2       \* the clock of SpecGate runs from 0 to GtMaxTime
NStProcs == 2        \* goroutines calling LayeredCache.Get in SpecStats
MaxStCalls == 4      \* Get calls in one behaviour of SpecStats
NRlProcs == 2        \* request goroutines calling allowIP in SpecSweep
MaxRlCalls == 4      \* allowIP calls in one behaviour of SpecSweep
RlMaxTime == 4       \* the clock of SpecSweep runs from 0 to RlMaxTime

Nil == <<"nil", 0>>  \* Go nil: []byte(nil), error(nil); values are <<kind, origin>>
NoCall == 0          \* sf.calls[key] has no entry

Callers == 1..NCallers
SfKeys == {"k1", "k2"}

VARIABLES
  sfCalls,       \* SingleFlight.calls: key -> id of the installed *call
  sfRecs,        \* the *call objects ever allocated: <<[done, val, err, leader]>>
  sfPc,          \* position of each caller inside Do
  sfKey,         \* the key each caller passed to Do
  sfHeld,        \* the *call each caller holds (c in the code)
  sfRet,         \* what Do returned to each caller: [val, err]
  sfInvoked,     \* history: the caller's fn was invoked
  sfCancelAt,    \* history: "wait" once the caller's context was cancelled in Wait
  sfBegunAtRet   \* history: every caller had called Do when this one returned

VARIABLES
  cb,            \* the CircuitBreaker struct
  now,           \* time.Now()
  cbPc,          \* position of each goroutine inside Call
  cbCalls,       \* number of calls of Call so far
  cbEv,          \* history: the last step and the breaker as it found it
  cbRun,         \* history: results recorded since the last success that were failures
  cbHoSucc,      \* history: successes recorded since the breaker last became half-open
  cbHoRun        \* history: the same, since the last recorded failure

cbVars == <<cb, now, cbPc, cbCalls, cbEv, cbRun, cbHoSucc, cbHoRun>>

VARIABLES
  pxPc,          \* position of each request goroutine inside handleProxy
  pxReq,         \* the request it serves: [method, path, body]
  dsf,           \* d.singleFlight.calls
  csf,           \* d.client.singleFlight.calls
  pxRecs,        \* the *call objects of both tables, named by table and leader
  pxOuter,       \* the *call each goroutine holds in d.singleFlight.Do
  pxInner,       \* the *call each goroutine holds in client.singleFlight.Do
  cache,         \* d.cache: key -> cached body
  upstream,      \* history: the request each goroutine's executeRequest sent upstream
  pxResp,        \* the response written: [status, xcache, offline, body]
  pxSeen,        \* history: how the goroutine's allowRequest found the breaker
  pxBegunAtRet   \* history: every request had arrived when this one was answered

pxVars == <<pxPc, pxReq, dsf, csf, pxRecs, pxOuter, pxInner, cache, upstream,
            pxResp, pxSeen, pxBegunAtRet>>

sfVars == <<sfCalls, sfRecs, sfPc, sfKey, sfHeld, sfRet, sfInvoked, sfCancelAt,
            sfBegunAtRet>>

VARIABLES
  mem,           \* the MemoryCache (L1): [capacity, items, totalBytes]
  db,            \* the rows of the durable cache (L2): key -> [value, expiresAt]
  lcTtl,         \* [l1 |-> LayeredCache.ttl, l2 |-> the ttl of the durable cache]
  lcPc,          \* position of each goroutine inside a LayeredCache call
  lcOp,          \* the call it runs: [kind, key, value, until, clean]
  lcRet,         \* what the call that returned in the last step returned, and to
                 \* whom: [p, kind, key, ok, value, why, expect]
  lcEv,          \* history: the last step of a LayeredCache call: [p, step, key]
  memUse,        \* history: the keys of L1 by last Set or successful Get, latest first
  memEv,         \* history: the last step on L1 and what it found
  lcFresh,       \* history: key -> [value, until] of the last completed Set,
                 \* until a later Set or Delete of the key begins
  lcExpect,      \* history: lcFresh of its key as a Get in progress found it
  lcOverlap,     \* history: two calls have been in progress at the same time
  lcCalls        \* number of LayeredCache calls begun so far

ccVars == <<mem, db, lcTtl, lcPc, lcOp, lcRet, lcEv, memUse, memEv, lcFresh,
            lcExpect, lcOverlap, lcCalls>>

VARIABLES
  tb,            \* a tokenBucket called directly: [tokens, capacity, refillRate, lastRefill]
  tbEv,          \* history: the last allow call on tb: [op, ok]
  tbCalls,       \* history: number of allow calls on tb so far
  tbAdmits,      \* history: time -> number of allow calls on tb that returned true
  ipLimiters,    \* RateLimiter.ipLimiters: ip -> tokenBucket
  keyLimiters,   \* RateLimiter.keyLimiters: key -> tokenBucket
  gtCache,       \* d.cache as the handler chain sees it: key -> stored response body
  gtSsrf,        \* d.ssrfProtection != nil (cfg.Security.SSRFProtectionEnabled)
  gtEv           \* history: the last request served, the checks it passed through in
                 \* order, the upstream request sent for it and the response written

gtVars == <<tb, tbEv, tbCalls, tbAdmits, ipLimiters, keyLimiters, gtCache, gtSsrf, gtEv>>

VARIABLES
  sdPc,          \* position of the main goroutine in Daemon.Start: waiting for the
                 \* signal, or at one of the shutdown statements
  jnPc,          \* position of the goroutine started by Scheduler.Start
  tickerC,       \* s.ticker.C holds a tick (the channel has room for one)
  tickerStopped, \* s.ticker.Stop() has been called
  schedDone,     \* s.done has been closed
  dbClosed,      \* the database handle of the durable cache has been closed
  jnLayered,     \* s.cache is a *cache.LayeredCache (the memory cache is enabled)
  jnTicks,       \* history: number of ticks the ticker has delivered
  jnEv           \* history: the last step of the scheduler goroutine and what it
                 \* found: [op, closed, stopped]

jnVars == <<sdPc, jnPc, tickerC, tickerStopped, schedDone, dbClosed, jnLayered,
            jnTicks, jnEv>>

VARIABLES
  rlCfg,         \* [rate |-> rl.ipRate, burst |-> rl.burst]
  rlHeap,        \* the tokenBuckets allocated so far, in the order of allocation
  rlIp,          \* rl.ipLimiters: ip -> the bucket it points to (its place in rlHeap)
  rlPc,          \* position of each request goroutine inside allowIP
  rlHeld,        \* the bucket a goroutine got from the map (0: none)
  rlCalls,       \* number of allowIP calls begun so far
  rlAdmits,      \* history: time -> number of allowIP calls that returned true
  rlEv           \* history: the last step on the limiter: [op, evicted, inflight]

rlVars == <<rlCfg, rlHeap, rlIp, rlPc, rlHeld, rlCalls, rlAdmits, rlEv>>

VARIABLES
  stPc,          \* position of each goroutine inside LayeredCache.Get
  stOp,          \* the key it asked for and the value the durable cache gave it
  stTmp,         \* the counter value it has loaded for c.l1Miss++ or c.l2Miss++
  stCnt,         \* the counters: [hits, misses] of the MemoryCache (under its
                 \* mutex), [l1Miss, l2Miss] of the LayeredCache (under none)
  stDone,        \* history: number of Get calls that returned a value, and that
                 \* returned an error: [value, miss]
  stCalls        \* number of Get calls begun so far

stVars == <<stPc, stOp, stTmp, stCnt, stDone, stCalls>>

bgVars == <<jnVars, rlVars, stVars>>

(***************************************************************************)
(* The sf.calls map, as a function whose domain is the installed keys.     *)
(***************************************************************************)
EmptyCalls == [k \in {} |-> NoCall]

\* if c, ok := sf.calls[key]; ok
SFLookupAlwaysMiss(calls, key) == NoCall

SFLookup(calls, key) == IF key \in DOMAIN calls THEN calls[key] ELSE NoCall

\* A variant that forgets to install the call.
SFInstallDropped(calls, key, id) == calls

\* sf.calls[key] = c
SFInstall(calls, key, id) ==
  [k \in DOMAIN calls \cup {key} |-> IF k = key THEN id ELSE calls[k]]

\* delete(sf.calls, key)
SFDelete(calls, key) == [k \in DOMAIN calls \ {key} |-> calls[k]]

\* c := &call{}; c.wg.Add(1)
NewCall(leader) == [done |-> FALSE, val |-> Nil, err |-> Nil, leader |-> leader]

\* return c.val, c.err
CallResult(rec) == [val |-> rec.val, err |-> rec.err]

NoRet == [val |-> <<"none", 0>>, err |-> <<"none", 0>>]
Cancelled == <<"cancelled", 0>>

(***************************************************************************)
(* CircuitBreaker.                                                         *)
(***************************************************************************)
StateClosed == "closed"
StateOpen == "open"
StateHalfOpen == "half-open"

ZeroTime == -1       \* the zero time.Time of a breaker that never failed
Forever == MaxTime + PxMaxTime + MaxTimeout + 1

\* time.Since(t)
Since(t, n) == IF t = ZeroTime THEN Forever ELSE n - t

\* NewCircuitBreaker(threshold, timeout, halfOpenMax)
NewCircuitBreaker(threshold, timeout, halfOpenMax) ==
  [state |-> StateClosed, failureCount |-> 0, successCount |-> 0,
   lastFailureTime |-> ZeroTime, threshold |-> threshold, timeout |-> timeout,
   halfOpenMax |-> halfOpenMax]

\* A variant of allowRequest that already probes when exactly timeout has passed.
AllowRequestAtTimeout(b, n) ==
  CASE b.state = StateClosed -> [cb |-> b, ok |-> TRUE]
    [] b.state = StateOpen ->
         IF Since(b.lastFailureTime, n) >= b.timeout
         THEN [cb |-> [b EXCEPT !.state = StateHalfOpen, !.successCount = 0,
                                !.failureCount = 0],
               ok |-> TRUE]
         ELSE [cb |-> b, ok |-> FALSE]
    [] b.state = StateHalfOpen ->
         [cb |-> b, ok |-> b.successCount + b.failureCount < b.halfOpenMax]

\* A variant that probes from Open without waiting for the timeout.
AllowRequestNoTimeout(b, n) ==
  CASE b.state = StateClosed -> [cb |-> b, ok |-> TRUE]
    [] b.state = StateOpen ->
         [cb |-> [b EXCEPT !.state = StateHalfOpen, !.successCount = 0,
                           !.failureCount = 0],
          ok |-> TRUE]
    [] b.state = StateHalfOpen ->
         [cb |-> b, ok |-> b.successCount + b.failureCount < b.halfOpenMax]

\* allowRequest: the breaker afterwards, and whether the call is admitted
AllowRequest(b, n) ==
  CASE b.state = StateClosed -> [cb |-> b, ok |-> TRUE]
    [] b.state = StateOpen ->
         IF Since(b.lastFailureTime, n) > b.timeout
         THEN [cb |-> [b EXCEPT !.state = StateHalfOpen, !.successCount = 0,
                                !.failureCount = 0],
               ok |-> TRUE]
         ELSE [cb |-> b, ok |-> FALSE]
    [] b.state = StateHalfOpen ->
         [cb |-> b, ok |-> b.successCount + b.failureCount < b.halfOpenMax]

\* Variants of recordResult: one that opens only above the threshold, one that
\* closes only above halfOpenMax.
RecordResultAboveThreshold(b, success, n) ==
  IF success
  THEN LET c == [b EXCEPT !.successCount = @ + 1, !.failureCount = 0] IN
         IF c.state = StateHalfOpen /\ c.successCount >= c.halfOpenMax
         THEN [c EXCEPT !.state = StateClosed] ELSE c
  ELSE LET c == [b EXCEPT !.failureCount = @ + 1, !.lastFailureTime = n] IN
         IF c.failureCount > c.threshold
         THEN [c EXCEPT !.state = StateOpen] ELSE c

RecordResultAboveHalfOpenMax(b, success, n) ==
  IF success
  THEN LET c == [b EXCEPT !.successCount = @ + 1, !.failureCount = 0] IN
         IF c.state = StateHalfOpen /\ c.successCount > c.halfOpenMax
         THEN [c EXCEPT !.state = StateClosed] ELSE c
  ELSE LET c == [b EXCEPT !.failureCount = @ + 1, !.lastFailureTime = n] IN
         IF c.failureCount >= c.threshold
         THEN [c EXCEPT !.state = StateOpen] ELSE c

\* recordResult(success)
RecordResult(b, success, n) ==
  IF success
  THEN LET c == [b EXCEPT !.successCount = @ + 1, !.failureCount = 0] IN
         IF c.state = StateHalfOpen /\ c.successCount >= c.halfOpenMax
         THEN [c EXCEPT !.state = StateClosed] ELSE c
  ELSE LET c == [b EXCEPT !.failureCount = @ + 1, !.lastFailureTime = n] IN
         IF c.failureCount >= c.threshold
         THEN [c EXCEPT !.state = StateOpen] ELSE c

(***************************************************************************)
(* Strings are sequences of characters, so that formatting a key is the    *)
(* concatenation the code performs.                                        *)
(***************************************************************************)
HasPrefix(str, prefix) ==
  Len(str) >= Len(prefix) /\ SubSeq(str, 1, Len(prefix)) = prefix

HasSuffix(str, suffix) ==
  Len(str) >= Len(suffix) /\ SubSeq(str, Len(str) - Len(suffix) + 1, Len(str)) = suffix

TrimSuffix(str, suffix) ==
  IF HasSuffix(str, suffix) THEN SubSeq(str, 1, Len(str) - Len(suffix)) ELSE str

\* matchPattern(pattern, str)
MatchPattern(pattern, str) ==
  IF pattern = str THEN TRUE
  ELSE IF HasSuffix(pattern, <<"/", "*">>)
       THEN HasPrefix(str, TrimSuffix(pattern, <<"/", "*">>))
  ELSE IF HasSuffix(pattern, <<"*">>)
       THEN HasPrefix(str, TrimSuffix(pattern, <<"*">>))
  ELSE FALSE

\* cfg.WhitelistedEndpoints and cfg.OfflineEndpoints of the modelled daemon
WhitelistedEndpoints == {<<"/", "a", "/", "*">>}
OfflineEndpoints == {<<"/", "a", "/", "o">>}

\* Config.IsEndpointWhitelisted, Config.IsEndpointOffline
IsEndpointWhitelisted(endpoint) ==
  \E pattern \in WhitelistedEndpoints : MatchPattern(pattern, endpoint)

IsEndpointOffline(endpoint) ==
  \E pattern \in OfflineEndpoints : MatchPattern(pattern, endpoint)

\* cache.GenerateKey(method, path, body): SHA-256 over the three strings
\* written one after the other; the digest is taken as injective on its input,
\* so the key is the input.
GenerateKey(method, path, body) == method \o path \o body

\* handleProxy: reqKey := fmt.Sprintf("%s:%s:%s", method, endpoint, body).
ReqKey(method, endpoint, body) ==
  method \o <<":">> \o endpoint \o <<":">> \o body

\* Client.Request: key := fmt.Sprintf("%s:%s", method, path)
ClientKey(method, path) == method \o <<":">> \o path

\* io.ReadAll(middleware.LimitReader(r.Body, max)): limitedReader.Read fails
\* once max bytes were read and ReadAll asks for more; a body of exactly max
\* bytes is read in full only if its reader reports EOF with the last bytes.
ReadBodyOk(body, max, eofWithData) ==
  \/ Len(body) < max
  \/ Len(body) = max /\ eofWithData

GET == <<"GET">>
POST == <<"POST">>

\* The requests of the model: [method, path (after /api), body].
Requests ==
  { [method |-> GET,  path |-> <<"/", "a", "/", "x">>, body |-> << >>],
    [method |-> POST, path |-> <<"/", "a", "/", "y">>, body |-> <<"1">>],
    [method |-> POST, path |-> <<"/", "a", "/", "y">>, body |-> <<"2">>] }

ErrCircuitOpen == <<"circuit-open", 0>>

(***************************************************************************)
(* MemoryCache (pkg/cache/memory.go): m.lru is the sequence m.items, front *)
(* first; m.items of the code (the map) is the index of a key in it.  An   *)
(* entry is [key, value, expiresAt, size]; values are byte strings.        *)
(***************************************************************************)
NoValue == << >>

RemoveAt(s, i) == SubSeq(s, 1, i - 1) \o SubSeq(s, i + 1, Len(s))

\* m.lru.MoveToFront(elem)
MoveToFront(s, i) == <<s[i]>> \o RemoveAt(s, i)

\* elem, exists := m.items[key]: the position of the entry, 0 if none
MemIndex(m, key) ==
  IF \E i \in 1..Len(m.items) : m.items[i].key = key
  THEN CHOOSE i \in 1..Len(m.items) : m.items[i].key = key
  ELSE 0

\* time.Now().After(t)
After(n, t) == n > t

\* NewMemoryCache(capacity)
NewMemoryCache(capacity) ==
  [capacity |-> IF capacity <= 0 THEN 1000 ELSE capacity,
   items |-> << >>, totalBytes |-> 0]

\* A variant of removeElement that keeps the byte counter.
RemoveElementKeepsBytes(m, i) == [m EXCEPT !.items = RemoveAt(@, i)]

\* removeElement(elem)
RemoveElement(m, i) ==
  [m EXCEPT !.items = RemoveAt(@, i), !.totalBytes = @ - m.items[i].size]

\* evictOldest(): elem := m.lru.Back(); if elem != nil { m.removeElement(elem) }
EvictOldest(m) == IF Len(m.items) > 0 THEN RemoveElement(m, Len(m.items)) ELSE m

\* Variants of Get: one that returns an entry whatever its expiry, one that
\* leaves the entry where it is in the list.
MemGetIgnoresExpiry(m, key, n) ==
  LET i == MemIndex(m, key) IN
    IF i = 0 THEN [m |-> m, ok |-> FALSE, value |-> NoValue]
    ELSE [m |-> [m EXCEPT !.items = MoveToFront(@, i)], ok |-> TRUE,
          value |-> m.items[i].value]

MemGetNoRefresh(m, key, n) ==
  LET i == MemIndex(m, key) IN
    IF i = 0 THEN [m |-> m, ok |-> FALSE, value |-> NoValue]
    ELSE IF After(n, m.items[i].expiresAt)
      THEN [m |-> RemoveElement(m, i), ok |-> FALSE, value |-> NoValue]
    ELSE [m |-> m, ok |-> TRUE, value |-> m.items[i].value]

\* Get(key) at time n: the cache afterwards, whether it is a hit, the value
MemGet(m, key, n) ==
  LET i == MemIndex(m, key) IN
    IF i = 0 THEN [m |-> m, ok |-> FALSE, value |-> NoValue]
    ELSE IF After(n, m.items[i].expiresAt)
      THEN [m |-> RemoveElement(m, i), ok |-> FALSE, value |-> NoValue]
    ELSE [m |-> [m EXCEPT !.items = MoveToFront(@, i)], ok |-> TRUE,
          value |-> m.items[i].value]

\* A variant of the entry whose expiry is the time of the Set.
MemEntryExpiresNow(key, value, ttl, n) ==
  [key |-> key, value |-> value, expiresAt |-> n, size |-> Len(value)]

\* the memoryEntry Set builds
MemEntry(key, value, ttl, n) ==
  [key |-> key, value |-> value, expiresAt |-> n + ttl, size |-> Len(value)]

\* Variants of Set: one that never evicts, one that stores nothing.
MemSetNoEvict(m, key, value, ttl, n) ==
  LET i == MemIndex(m, key) IN
    IF i # 0
    THEN [m EXCEPT !.items = MoveToFront([@ EXCEPT ![i] = MemEntry(key, value, ttl, n)], i),
                   !.totalBytes = @ - m.items[i].size + Len(value)]
    ELSE [m EXCEPT !.items = <<MemEntry(key, value, ttl, n)>> \o @,
                   !.totalBytes = @ + Len(value)]

MemSetDropped(m, key, value, ttl, n) == m

\* Set(key, value, ttl) at time n
MemSet(m, key, value, ttl, n) ==
  LET i == MemIndex(m, key) IN
    IF i # 0
    THEN [m EXCEPT !.items = MoveToFront([@ EXCEPT ![i] = MemEntry(key, value, ttl, n)], i),
                   !.totalBytes = @ - m.items[i].size + Len(value)]
    ELSE LET pushed == [m EXCEPT !.items = <<MemEntry(key, value, ttl, n)>> \o @,
                                 !.totalBytes = @ + Len(value)] IN
           IF Len(pushed.items) > pushed.capacity THEN EvictOldest(pushed) ELSE pushed

\* Delete(key)
MemDelete(m, key) ==
  LET i == MemIndex(m, key) IN IF i # 0 THEN RemoveElement(m, i) ELSE m

\* Clear()
MemClear(m) == [m EXCEPT !.items = << >>, !.totalBytes = 0]

\* CleanupExpired(): from the back of the list to the front
RECURSIVE MemSweepFrom(_, _, _)
MemSweepFrom(m, i, n) ==
  IF i = 0 THEN m
  ELSE MemSweepFrom(IF After(n, m.items[i].expiresAt) THEN RemoveElement(m, i) ELSE m,
                    i - 1, n)

MemCleanupExpired(m, n) == MemSweepFrom(m, Len(m.items), n)

(***************************************************************************)
(* The durable cache (SQLiteCache, PostgresCache): the table as a function *)
(* key -> [value, expiresAt] whose domain is the keys that have a row.     *)
(***************************************************************************)
NoRows == [k \in {} |-> [value |-> NoValue, expiresAt |-> 0]]

\* Get: SELECT value, expires_at WHERE key = ?; then the expiry check
DbGet(rows, key, n) ==
  IF key \notin DOMAIN rows
  THEN [found |-> FALSE, expired |-> FALSE, value |-> NoValue]
  ELSE IF After(n, rows[key].expiresAt)
    THEN [found |-> TRUE, expired |-> TRUE, value |-> NoValue]
  ELSE [found |-> TRUE, expired |-> FALSE, value |-> rows[key].value]

\* A variant of Set that keeps the row a key already has (INSERT OR IGNORE).
DbSetKeepsOld(rows, key, value, ttl, n) ==
  [k \in DOMAIN rows \cup {key} |->
     IF k \in DOMAIN rows THEN rows[k] ELSE [value |-> value, expiresAt |-> n + ttl]]

\* Set: INSERT OR REPLACE / ON CONFLICT DO UPDATE with expires_at = now + c.ttl
DbSet(rows, key, value, ttl, n) ==
  [k \in DOMAIN rows \cup {key} |->
     IF k = key THEN [value |-> value, expiresAt |-> n + ttl] ELSE rows[k]]

\* Delete: DELETE WHERE key = ?
DbDelete(rows, key) == [k \in DOMAIN rows \ {key} |-> rows[k]]

\* CleanupExpired: DELETE WHERE expires_at <= now
DbCleanupExpired(rows, n) ==
  [k \in {j \in DOMAIN rows : ~(rows[j].expiresAt <= n)} |-> rows[k]]

\* The keys, values and goroutines of the cache specifications.
MemKeys == {"k1", "k2", "k3"}
LcKeys == {"k1", "k2"}
CcValues == {<<"a">>, <<"b", "b">>}
LcProcs == 1..NLcProcs

\* the keys stored in the memory cache
MemKeysOf(m) == {m.items[i].key : i \in 1..Len(m.items)}

(***************************************************************************)
(* tokenBucket (pkg/middleware/ratelimit.go).  tokens, capacity and the    *)
(* refill are counted in units of 1/TokUnit token; refillRate is the       *)
(* number of units per tick of the clock.                                  *)
(***************************************************************************)
\* newTokenBucket(ratePerMinute, burst) at time n
NewTokenBucket(rate, burst, n) ==
  [tokens |-> burst * TokUnit, capacity |-> burst * TokUnit, refillRate |-> rate,
   lastRefill |-> n]

\* A variant of allow that does not cap the refill at the capacity.
AllowUncapped(b, n) ==
  LET filled == b.tokens + (n - b.lastRefill) * b.refillRate IN
    IF filled >= TokUnit
    THEN [tb |-> [b EXCEPT !.tokens = filled - TokUnit, !.lastRefill = n], ok |-> TRUE]
    ELSE [tb |-> [b EXCEPT !.tokens = filled, !.lastRefill = n], ok |-> FALSE]

\* allow() at time n: the bucket afterwards, and whether a token was taken
Allow(b, n) ==
  LET elapsed == n - b.lastRefill
      filled == b.tokens + elapsed * b.refillRate
      tokens == IF filled > b.capacity THEN b.capacity ELSE filled
  IN IF tokens >= TokUnit
     THEN [tb |-> [b EXCEPT !.tokens = tokens - TokUnit, !.lastRefill = n], ok |-> TRUE]
     ELSE [tb |-> [b EXCEPT !.tokens = tokens, !.lastRefill = n], ok |-> FALSE]

(***************************************************************************)
(* Initial values.  Each specification starts its own component and leaves *)
(* the other components as constructed.                                    *)
(***************************************************************************)
Procs == 1..NProcs
Handlers == 1..NHandlers

CbEvent(op, b, n, ok) ==
  [op |-> op, pre |-> b.state, since |-> Since(b.lastFailureTime, n), ok |-> ok]

NoEvent == [op |-> "none", pre |-> StateClosed, since |-> Forever, ok |-> TRUE]

\* NewSingleFlight(), no caller yet
SfIdle ==
  /\ sfCalls = EmptyCalls
  /\ sfRecs = << >>
  /\ sfPc = [c \in Callers |-> "idle"]
  /\ sfKey = [c \in Callers |-> "none"]
  /\ sfHeld = [c \in Callers |-> NoCall]
  /\ sfRet = [c \in Callers |-> NoRet]
  /\ sfInvoked = [c \in Callers |-> FALSE]
  /\ sfCancelAt = [c \in Callers |-> "never"]
  /\ sfBegunAtRet = [c \in Callers |-> FALSE]

\* the clock and the goroutines of SpecCB, no call yet
CbIdle ==
  /\ now = 0
  /\ cbPc = [p \in Procs |-> "idle"]
  /\ cbCalls = 0
  /\ cbEv = NoEvent
  /\ cbRun = 0
  /\ cbHoSucc = 0
  /\ cbHoRun = 0

\* an empty cache: key -> body, the domain being the keys stored
EmptyCache == [k \in {} |-> Nil]

NoReq == [method |-> << >>, path |-> << >>, body |-> << >>]
NoResp == [status |-> 0, xcache |-> "none", offline |-> FALSE, body |-> <<"none", 0>>]

\* Daemon.Start: empty tables, cold cache, no request yet
PxIdle ==
  /\ pxPc = [h \in Handlers |-> "idle"]
  /\ pxReq = [h \in Handlers |-> NoReq]
  /\ dsf = EmptyCalls
  /\ csf = EmptyCalls
  /\ pxRecs = [outer |-> [h \in Handlers |-> NewCall(h)],
               inner |-> [h \in Handlers |-> NewCall(h)]]
  /\ pxOuter = [h \in Handlers |-> NoCall]
  /\ pxInner = [h \in Handlers |-> NoCall]
  /\ cache = EmptyCache
  /\ upstream = [h \in Handlers |-> NoReq]
  /\ pxResp = [h \in Handlers |-> NoResp]
  /\ pxSeen = [h \in Handlers |-> "none"]
  /\ pxBegunAtRet = [h \in Handlers |-> FALSE]

NoMemEv ==
  [op |-> "none", key |-> "", ok |-> FALSE, expired |-> FALSE, full |-> FALSE,
   removed |-> {}, oldest |-> ""]
NoOp == [kind |-> "none", key |-> "", value |-> NoValue, until |-> 0, clean |-> FALSE]
NoRes ==
  [p |-> 0, kind |-> "none", key |-> "", ok |-> FALSE, value |-> NoValue,
   why |-> "none", expect |-> NoValue]
NoFresh == [value |-> NoValue, until |-> 0]
NoLcEv == [p |-> 0, step |-> "none", key |-> ""]

\* no call yet
LcStarted ==
  /\ lcPc = [p \in LcProcs |-> "idle"]
  /\ lcOp = [p \in LcProcs |-> NoOp]
  /\ lcRet = NoRes
  /\ lcEv = NoLcEv
  /\ memUse = << >>
  /\ memEv = NoMemEv
  /\ lcFresh = [k \in LcKeys |-> NoFresh]
  /\ lcExpect = [p \in LcProcs |-> NoFresh]
  /\ lcOverlap = FALSE
  /\ lcCalls = 0

\* an empty table, no call yet
LcIdle ==
  /\ db = NoRows
  /\ LcStarted

\* NewLayeredCache(dbCache, 1, 1) with a durable ttl of 1
CcIdle ==
  /\ mem = NewMemoryCache(1)
  /\ lcTtl = [l1 |-> 1, l2 |-> 1]
  /\ LcIdle

NoLimiters == [k \in {} |-> NewTokenBucket(1, 1, 0)]
NoTbEv == [op |-> "none", ok |-> FALSE]
NoGtCache == [k \in {} |-> << >>]
NoHeaders == [h \in {} |-> ""]
NoGtResp == [status |-> 0, headers |-> {}, xcache |-> "", offline |-> FALSE, body |-> << >>]
NoUp == [sent |-> FALSE, method |-> << >>, path |-> << >>, body |-> << >>,
         headers |-> NoHeaders]
NoGtReq == [route |-> "", method |-> << >>, path |-> << >>, body |-> << >>,
            declared |-> FALSE, ctype |-> "", ip |-> "", apiKey |-> ""]
NoMetrics == [requests |-> 0, errors |-> 0]
NoHealth == [status |-> "", database |-> "", upstream |-> ""]
NoGtEv == [op |-> "none", req |-> NoGtReq,
           ipEmpty |-> FALSE, cached |-> FALSE, trace |-> << >>, resp |-> NoGtResp,
           up |-> NoUp, metrics |-> NoMetrics, health |-> NoHealth]

\* the scheduler goroutine has taken no step yet
NoJnEv == [op |-> "none", closed |-> FALSE, stopped |-> FALSE]

\* no scheduler running, no shutdown begun
JnIdle ==
  /\ sdPc = "serving"
  /\ jnPc = "exit"
  /\ tickerC = FALSE
  /\ tickerStopped = FALSE
  /\ schedDone = FALSE
  /\ dbClosed = FALSE
  /\ jnLayered = FALSE
  /\ jnTicks = 0
  /\ jnEv = NoJnEv

RlProcs == 1..NRlProcs

NoRlEv == [op |-> "none", evicted |-> FALSE, inflight |-> FALSE]

\* NewRateLimiter(1, 1, 1): no bucket yet, no request yet
RlIdle ==
  /\ rlCfg = [rate |-> 1, burst |-> 1]
  /\ rlHeap = << >>
  /\ rlIp = [ip \in {} |-> 0]
  /\ rlPc = [p \in RlProcs |-> "idle"]
  /\ rlHeld = [p \in RlProcs |-> 0]
  /\ rlCalls = 0
  /\ rlAdmits = [t \in 0..RlMaxTime |-> 0]
  /\ rlEv = NoRlEv

StProcs == 1..NStProcs

NoStOp == [key |-> "", value |-> NoValue]

\* the counters of a new LayeredCache over a new MemoryCache, no Get yet
StIdle ==
  /\ stPc = [p \in StProcs |-> "idle"]
  /\ stOp = [p \in StProcs |-> NoStOp]
  /\ stTmp = [p \in StProcs |-> 0]
  /\ stCnt = [hits |-> 0, misses |-> 0, l1Miss |-> 0, l2Miss |-> 0]
  /\ stDone = [value |-> 0, miss |-> 0]
  /\ stCalls = 0

BgIdle ==
  /\ JnIdle
  /\ RlIdle
  /\ StIdle

\* no bucket used yet, no request served yet
GtIdle ==
  /\ tb = NewTokenBucket(1, 1, 0)
  /\ tbEv = NoTbEv
  /\ tbCalls = 0
  /\ tbAdmits = [t \in 0..TbMaxTime |-> 0]
  /\ ipLimiters = NoLimiters
  /\ keyLimiters = NoLimiters
  /\ gtCache = NoGtCache
  /\ gtSsrf = FALSE
  /\ gtEv = NoGtEv

(***************************************************************************)
(* SpecCB: CircuitBreaker.Call by overlapping goroutines.                  *)
(***************************************************************************)
InitCB ==
  /\ \E threshold \in 1..MaxThreshold, timeout \in 1..MaxTimeout,
        halfOpenMax \in 1..MaxHalfOpen :
       cb = NewCircuitBreaker(threshold, timeout, halfOpenMax)
  /\ CbIdle
  /\ SfIdle
  /\ PxIdle
  /\ GtIdle
  /\ BgIdle
  /\ CcIdle

\* Call: if !cb.allowRequest() { return ErrCircuitOpen }.  An admitted call is
\* at "probe" when the breaker was HalfOpen as allowRequest returned, else "fn".
CbAllow(p) ==
  /\ cbPc[p] = "idle"
  /\ cbCalls < MaxCalls
  /\ cbCalls' = cbCalls + 1
  /\ LET r == AllowRequest(cb, now) IN
       /\ cb' = r.cb
       /\ cbPc' = [cbPc EXCEPT ![p] =
            IF ~r.ok THEN "idle"
            ELSE IF r.cb.state = StateHalfOpen THEN "probe" ELSE "fn"]
       /\ cbEv' = CbEvent("allow", cb, now, r.ok)
       /\ IF cb.state # StateHalfOpen /\ r.cb.state = StateHalfOpen
          THEN cbHoSucc' = 0 /\ cbHoRun' = 0
          ELSE UNCHANGED <<cbHoSucc, cbHoRun>>
  /\ UNCHANGED <<now, cbRun>>
  /\ UNCHANGED <<sfVars, pxVars, ccVars, gtVars, bgVars>>

\* Call: err := fn(); cb.recordResult(err == nil); return err
CbResult(p, success) ==
  /\ cbPc[p] \in {"fn", "probe"}
  /\ cb' = RecordResult(cb, success, now)
  /\ cbPc' = [cbPc EXCEPT ![p] = "idle"]
  /\ cbEv' = CbEvent("record", cb, now, success)
  /\ cbRun' = IF success THEN 0 ELSE cbRun + 1
  /\ cbHoSucc' = IF success THEN cbHoSucc + 1 ELSE cbHoSucc
  /\ cbHoRun' = IF success THEN cbHoRun + 1 ELSE 0
  /\ UNCHANGED <<now, cbCalls>>
  /\ UNCHANGED <<sfVars, pxVars, ccVars, gtVars, bgVars>>

\* The clock advances.
CbTick ==
  /\ now < MaxTime
  /\ now' = now + 1
  /\ cbEv' = CbEvent("tick", cb, now, TRUE)
  /\ UNCHANGED <<cb, cbPc, cbCalls, cbRun, cbHoSucc, cbHoRun>>
  /\ UNCHANGED <<sfVars, pxVars, ccVars, gtVars, bgVars>>

CbNext ==
  \/ \E p \in Procs : CbAllow(p)
  \/ \E p \in Procs, success \in BOOLEAN : CbResult(p, success)
  \/ CbTick


(***************************************************************************)
(* SpecSF: SingleFlight.Do.                                                *)
(***************************************************************************)
InitSF ==
  /\ SfIdle
  /\ cb = NewCircuitBreaker(1, 1, 1)
  /\ CbIdle
  /\ PxIdle
  /\ GtIdle
  /\ BgIdle
  /\ CcIdle

SfBegun == \A c \in Callers : sfPc[c] # "idle"

\* A goroutine calls Do(key, fn): it is now inside Do, before sf.mu.Lock().
SfCall(c, key) ==
  /\ sfPc[c] = "idle"
  /\ sfPc' = [sfPc EXCEPT ![c] = "lock"]
  /\ sfKey' = [sfKey EXCEPT ![c] = key]
  /\ UNCHANGED <<sfCalls, sfRecs, sfHeld, sfRet, sfInvoked, sfCancelAt, sfBegunAtRet>>
  /\ UNCHANGED <<cbVars, pxVars, ccVars, gtVars, bgVars>>

\* sf.mu.Lock(); lookup; either join the installed call or install a new one.
SfLock(c) ==
  /\ sfPc[c] = "lock"
  /\ LET found == SFLookup(sfCalls, sfKey[c]) IN
       IF found # NoCall
       THEN /\ sfHeld' = [sfHeld EXCEPT ![c] = found]
            /\ sfPc' = [sfPc EXCEPT ![c] = "wait"]
            /\ UNCHANGED <<sfCalls, sfRecs>>
       ELSE /\ sfRecs' = Append(sfRecs, NewCall(c))
            /\ sfCalls' = SFInstall(sfCalls, sfKey[c], Len(sfRecs) + 1)
            /\ sfHeld' = [sfHeld EXCEPT ![c] = Len(sfRecs) + 1]
            /\ sfPc' = [sfPc EXCEPT ![c] = "run"]
  /\ UNCHANGED <<sfKey, sfRet, sfInvoked, sfCancelAt, sfBegunAtRet>>
  /\ UNCHANGED <<cbVars, pxVars, ccVars, gtVars, bgVars>>

\* c.val, c.err = fn(): fn returns a value, returns an error, or panics.  A
\* panic unwinds Do: Do has no defer and no recover, so nothing else runs.
SfFn(c, outcome) ==
  /\ sfPc[c] = "run"
  /\ sfInvoked' = [sfInvoked EXCEPT ![c] = TRUE]
  /\ CASE outcome = "ok" ->
            /\ sfRecs' = [sfRecs EXCEPT ![sfHeld[c]].val = <<"value", c>>]
            /\ sfPc' = [sfPc EXCEPT ![c] = "delete"]
            /\ UNCHANGED sfBegunAtRet
       [] outcome = "err" ->
            /\ sfRecs' = [sfRecs EXCEPT ![sfHeld[c]].err = <<"error", c>>]
            /\ sfPc' = [sfPc EXCEPT ![c] = "delete"]
            /\ UNCHANGED sfBegunAtRet
       [] outcome = "panic" ->
            /\ sfPc' = [sfPc EXCEPT ![c] = "panicked"]
            /\ sfBegunAtRet' = [sfBegunAtRet EXCEPT ![c] = SfBegun]
            /\ UNCHANGED sfRecs
  /\ UNCHANGED <<sfCalls, sfKey, sfHeld, sfRet, sfCancelAt>>
  /\ UNCHANGED <<cbVars, pxVars, ccVars, gtVars, bgVars>>

\* sf.mu.Lock(); delete(sf.calls, key); sf.mu.Unlock()
SfDelete(c) ==
  /\ sfPc[c] = "delete"
  /\ sfCalls' = SFDelete(sfCalls, sfKey[c])
  /\ sfPc' = [sfPc EXCEPT ![c] = "signal"]
  /\ UNCHANGED <<sfRecs, sfKey, sfHeld, sfRet, sfInvoked, sfCancelAt, sfBegunAtRet>>
  /\ UNCHANGED <<cbVars, pxVars, ccVars, gtVars, bgVars>>

\* c.wg.Done(); return c.val, c.err
SfSignal(c) ==
  /\ sfPc[c] = "signal"
  /\ sfRecs' = [sfRecs EXCEPT ![sfHeld[c]].done = TRUE]
  /\ sfRet' = [sfRet EXCEPT ![c] = CallResult(sfRecs[sfHeld[c]])]
  /\ sfPc' = [sfPc EXCEPT ![c] = "done"]
  /\ sfBegunAtRet' = [sfBegunAtRet EXCEPT ![c] = SfBegun]
  /\ UNCHANGED <<sfCalls, sfKey, sfHeld, sfInvoked, sfCancelAt>>
  /\ UNCHANGED <<cbVars, pxVars, ccVars, gtVars, bgVars>>

\* c.wg.Wait() returns once the leader called Done; return c.val, c.err
SfWait(c) ==
  /\ sfPc[c] = "wait"
  /\ sfRecs[sfHeld[c]].done
  /\ sfRet' = [sfRet EXCEPT ![c] = CallResult(sfRecs[sfHeld[c]])]
  /\ sfPc' = [sfPc EXCEPT ![c] = "done"]
  /\ sfBegunAtRet' = [sfBegunAtRet EXCEPT ![c] = SfBegun]
  /\ UNCHANGED <<sfCalls, sfRecs, sfKey, sfHeld, sfInvoked, sfCancelAt>>
  /\ UNCHANGED <<cbVars, pxVars, ccVars, gtVars, bgVars>>

\* The caller's request context is cancelled while it is blocked in
\* c.wg.Wait().  Do takes no context and c.wg.Wait() cannot be interrupted:
\* nothing in Do reads the cancellation.
SfCancel(c) ==
  /\ sfPc[c] = "wait"
  /\ sfCancelAt[c] = "never"
  /\ sfCancelAt' = [sfCancelAt EXCEPT ![c] = sfPc[c]]
  /\ UNCHANGED <<sfCalls, sfRecs, sfPc, sfKey, sfHeld, sfRet, sfInvoked, sfBegunAtRet>>
  /\ UNCHANGED <<cbVars, pxVars, ccVars, gtVars, bgVars>>

SfNext ==
  \/ \E c \in Callers, key \in SfKeys : SfCall(c, key)
  \/ \E c \in Callers : SfLock(c)
  \/ \E c \in Callers, outcome \in {"ok", "err", "panic"} : SfFn(c, outcome)
  \/ \E c \in Callers : SfDelete(c)
  \/ \E c \in Callers : SfSignal(c)
  \/ \E c \in Callers : SfWait(c)
  \/ \E c \in Callers : SfCancel(c)

(***************************************************************************)
(* SpecProxy: Daemon.handleProxy by concurrent request goroutines.  The    *)
(* modelled daemon has an API key (d.client is set), deduplication and the *)
(* circuit breaker enabled (the defaults), no plugin and no SSRF gate.     *)
(***************************************************************************)
cbHist == <<cbPc, cbCalls, cbEv, cbRun, cbHoSucc, cbHoRun>>

\* threshold 1 or 2, timeout 1, halfOpenMax 1
InitProxy ==
  /\ \E threshold \in 1..2 : cb = NewCircuitBreaker(threshold, 1, 1)
  /\ CbIdle
  /\ SfIdle
  /\ PxIdle
  /\ GtIdle
  /\ BgIdle
  /\ CcIdle

PxBegun == \A h \in Handlers : pxPc[h] # "idle"

Response(status, xcache, offline, body) ==
  [status |-> status, xcache |-> xcache, offline |-> offline, body |-> body]

\* handleProxy up to the cache read: policy, body read, key, d.cache.Get, the
\* offline check.  Everything before d.cache.Get is local to the goroutine.
PxStart(h, req, eofWithData) ==
  /\ pxPc[h] = "idle"
  /\ pxReq' = [pxReq EXCEPT ![h] = req]
  /\ LET key == GenerateKey(req.method, req.path, req.body)
         answer ==
           IF ~IsEndpointWhitelisted(req.path)
             THEN Response(403, "none", FALSE, Nil)
           ELSE IF ~ReadBodyOk(req.body, MaxBody, eofWithData)
             THEN Response(413, "none", FALSE, Nil)
           ELSE IF key \in DOMAIN cache
             THEN Response(200, "HIT", IsEndpointOffline(req.path), cache[key])
           ELSE IF IsEndpointOffline(req.path)
             THEN Response(503, "none", FALSE, Nil)
           ELSE NoResp
     IN IF answer # NoResp
        THEN /\ pxResp' = [pxResp EXCEPT ![h] = answer]
             /\ pxPc' = [pxPc EXCEPT ![h] = "done"]
             /\ pxBegunAtRet' = [pxBegunAtRet EXCEPT ![h] = PxBegun']
        ELSE /\ pxPc' = [pxPc EXCEPT ![h] = "outerDo"]
             /\ UNCHANGED <<pxResp, pxBegunAtRet>>
  /\ UNCHANGED <<dsf, csf, pxRecs, pxOuter, pxInner, cache, upstream, pxSeen>>
  /\ UNCHANGED <<sfVars, cbVars, ccVars, gtVars, bgVars>>

\* d.singleFlight.Do(reqKey, ...): lookup or install under sf.mu
PxOuterDo(h) ==
  /\ pxPc[h] = "outerDo"
  /\ LET key == ReqKey(pxReq[h].method, pxReq[h].path, pxReq[h].body)
         found == SFLookup(dsf, key) IN
       IF found # NoCall
       THEN /\ pxOuter' = [pxOuter EXCEPT ![h] = found]
            /\ pxPc' = [pxPc EXCEPT ![h] = "outerWait"]
            /\ UNCHANGED <<dsf, pxRecs>>
       ELSE /\ pxRecs' = [pxRecs EXCEPT !.outer[h] = NewCall(h)]
            /\ dsf' = SFInstall(dsf, key, h)
            /\ pxOuter' = [pxOuter EXCEPT ![h] = h]
            /\ pxPc' = [pxPc EXCEPT ![h] = "innerDo"]
  /\ UNCHANGED <<pxReq, csf, pxInner, cache, upstream, pxResp, pxSeen, pxBegunAtRet>>
  /\ UNCHANGED <<sfVars, cbVars, ccVars, gtVars, bgVars>>

\* the outer fn: d.client.Request -> c.singleFlight.Do(key, ...): lookup or
\* install under the client's sf.mu
PxInnerDo(h) ==
  /\ pxPc[h] = "innerDo"
  /\ LET key == ClientKey(pxReq[h].method, pxReq[h].path)
         found == SFLookup(csf, key) IN
       IF found # NoCall
       THEN /\ pxInner' = [pxInner EXCEPT ![h] = found]
            /\ pxPc' = [pxPc EXCEPT ![h] = "innerWait"]
            /\ UNCHANGED <<csf, pxRecs>>
       ELSE /\ pxRecs' = [pxRecs EXCEPT !.inner[h] = NewCall(h)]
            /\ csf' = SFInstall(csf, key, h)
            /\ pxInner' = [pxInner EXCEPT ![h] = h]
            /\ pxPc' = [pxPc EXCEPT ![h] = "allow"]
  /\ UNCHANGED <<pxReq, dsf, pxOuter, cache, upstream, pxResp, pxSeen, pxBegunAtRet>>
  /\ UNCHANGED <<sfVars, cbVars, ccVars, gtVars, bgVars>>

\* the inner fn: doRequest -> circuitBreaker.Call: allowRequest; a rejected
\* call returns ErrCircuitOpen as the inner fn's error.
PxAllow(h) ==
  /\ pxPc[h] = "allow"
  /\ LET r == AllowRequest(cb, now) IN
       /\ cb' = r.cb
       /\ pxSeen' = [pxSeen EXCEPT ![h] =
            IF cb.state = StateOpen /\ Since(cb.lastFailureTime, now) < cb.timeout
            THEN "open-within-timeout" ELSE cb.state]
       /\ IF r.ok
          THEN /\ pxPc' = [pxPc EXCEPT ![h] = "upstream"]
               /\ UNCHANGED pxRecs
          ELSE /\ pxRecs' = [pxRecs EXCEPT !.inner[pxInner[h]].err = ErrCircuitOpen]
               /\ pxPc' = [pxPc EXCEPT ![h] = "innerDone"]
  /\ UNCHANGED <<pxReq, dsf, csf, pxOuter, pxInner, cache, upstream, pxResp, pxBegunAtRet>>
  /\ UNCHANGED <<sfVars, now, cbHist, ccVars, gtVars, bgVars>>

\* executeRequest sends the request upstream and gets a body or an error
\* (transport error or status >= 400); then recordResult(err == nil).
PxUpstream(h, ok) ==
  /\ pxPc[h] = "upstream"
  /\ upstream' = [upstream EXCEPT ![h] = pxReq[h]]
  /\ cb' = RecordResult(cb, ok, now)
  /\ pxRecs' = IF ok
               THEN [pxRecs EXCEPT !.inner[pxInner[h]].val = <<"body", h>>]
               ELSE [pxRecs EXCEPT !.inner[pxInner[h]].err = <<"error", h>>]
  /\ pxPc' = [pxPc EXCEPT ![h] = "innerDone"]
  /\ UNCHANGED <<pxReq, dsf, csf, pxOuter, pxInner, cache, pxResp, pxSeen, pxBegunAtRet>>
  /\ UNCHANGED <<sfVars, now, cbHist, ccVars, gtVars, bgVars>>

\* what client.Request returned becomes c.val, c.err of the outer call
PxOuterResult(recs, h, inner) ==
  [recs EXCEPT !.outer[pxOuter[h]].val = inner.val,
               !.outer[pxOuter[h]].err = inner.err]

\* client single-flight, leader: delete(sf.calls, key); c.wg.Done(); return
\* c.val, c.err to the outer fn.  Between the delete and Done no goroutine can
\* tell the two apart from a slow wake-up, so they are one step here.
PxInnerDone(h) ==
  /\ pxPc[h] = "innerDone"
  /\ csf' = SFDelete(csf, ClientKey(pxReq[h].method, pxReq[h].path))
  /\ pxRecs' = PxOuterResult([pxRecs EXCEPT !.inner[pxInner[h]].done = TRUE], h,
                             CallResult(pxRecs.inner[pxInner[h]]))
  /\ pxPc' = [pxPc EXCEPT ![h] = "outerDone"]
  /\ UNCHANGED <<pxReq, dsf, pxOuter, pxInner, cache, upstream, pxResp, pxSeen,
                 pxBegunAtRet>>
  /\ UNCHANGED <<sfVars, cbVars, ccVars, gtVars, bgVars>>

\* client single-flight: c.wg.Wait(); return c.val, c.err to the outer fn
PxInnerWait(h) ==
  /\ pxPc[h] = "innerWait"
  /\ pxRecs.inner[pxInner[h]].done
  /\ pxRecs' = PxOuterResult(pxRecs, h, CallResult(pxRecs.inner[pxInner[h]]))
  /\ pxPc' = [pxPc EXCEPT ![h] = "outerDone"]
  /\ UNCHANGED <<pxReq, dsf, csf, pxOuter, pxInner, cache, upstream, pxResp, pxSeen,
                 pxBegunAtRet>>
  /\ UNCHANGED <<sfVars, cbVars, ccVars, gtVars, bgVars>>

\* daemon single-flight, leader: delete(sf.calls, key); c.wg.Done(); return
PxOuterDone(h) ==
  /\ pxPc[h] = "outerDone"
  /\ dsf' = SFDelete(dsf, ReqKey(pxReq[h].method, pxReq[h].path, pxReq[h].body))
  /\ pxRecs' = [pxRecs EXCEPT !.outer[pxOuter[h]].done = TRUE]
  /\ pxPc' = [pxPc EXCEPT ![h] = "respond"]
  /\ UNCHANGED <<pxReq, csf, pxOuter, pxInner, cache, upstream, pxResp, pxSeen,
                 pxBegunAtRet>>
  /\ UNCHANGED <<sfVars, cbVars, ccVars, gtVars, bgVars>>

\* daemon single-flight: c.wg.Wait(); return c.val, c.err
PxOuterWait(h) ==
  /\ pxPc[h] = "outerWait"
  /\ pxRecs.outer[pxOuter[h]].done
  /\ pxPc' = [pxPc EXCEPT ![h] = "respond"]
  /\ UNCHANGED <<pxReq, dsf, csf, pxRecs, pxOuter, pxInner, cache, upstream, pxResp,
                 pxSeen, pxBegunAtRet>>
  /\ UNCHANGED <<sfVars, cbVars, ccVars, gtVars, bgVars>>

\* A variant of Set that stores an empty value under the key.
CacheSetEmptyBody(c, key, body) ==
  [k \in DOMAIN c \cup {key} |-> IF k = key THEN Nil ELSE c[k]]

\* d.cache.Set(cacheKey, body)
CacheSet(c, key, body) ==
  [k \in DOMAIN c \cup {key} |-> IF k = key THEN body ELSE c[k]]

\* handleProxy after Do: 502 on error; else d.cache.Set and 200 X-Cache: MISS.
\* The error of d.cache.Set is dropped: when the write fails (stored = FALSE)
\* the cache is unchanged and the response is the same.
PxRespond(h, stored) ==
  /\ pxPc[h] = "respond"
  /\ LET res == CallResult(pxRecs.outer[pxOuter[h]])
         key == GenerateKey(pxReq[h].method, pxReq[h].path, pxReq[h].body) IN
       IF res.err # Nil
       THEN /\ pxResp' = [pxResp EXCEPT ![h] = Response(502, "none", FALSE, Nil)]
            /\ UNCHANGED cache
       ELSE /\ cache' = IF stored THEN CacheSet(cache, key, res.val) ELSE cache
            /\ pxResp' = [pxResp EXCEPT ![h] = Response(200, "MISS", FALSE, res.val)]
  /\ pxPc' = [pxPc EXCEPT ![h] = "done"]
  /\ pxBegunAtRet' = [pxBegunAtRet EXCEPT ![h] = PxBegun]
  /\ UNCHANGED <<pxReq, dsf, csf, pxRecs, pxOuter, pxInner, upstream, pxSeen>>
  /\ UNCHANGED <<sfVars, cbVars, ccVars, gtVars, bgVars>>

\* The clock advances.
PxTick ==
  /\ now < PxMaxTime
  /\ now' = now + 1
  /\ UNCHANGED <<cb, cbHist, sfVars, pxVars, ccVars, gtVars, bgVars>>

PxNext ==
  \/ \E h \in Handlers, req \in Requests, eofWithData \in BOOLEAN :
       PxStart(h, req, eofWithData)
  \/ \E h \in Handlers : PxOuterDo(h)
  \/ \E h \in Handlers : PxInnerDo(h)
  \/ \E h \in Handlers : PxAllow(h)
  \/ \E h \in Handlers, ok \in BOOLEAN : PxUpstream(h, ok)
  \/ \E h \in Handlers : PxInnerDone(h)
  \/ \E h \in Handlers : PxInnerWait(h)
  \/ \E h \in Handlers : PxOuterDone(h)
  \/ \E h \in Handlers : PxOuterWait(h)
  \/ \E h \in Handlers, stored \in BOOLEAN : PxRespond(h, stored)
  \/ PxTick

(***************************************************************************)
(* SpecMem: one MemoryCache called directly.  Every method runs under      *)
(* m.mu, so a call is one step.                                            *)
(***************************************************************************)
InitMem ==
  /\ \E capacity \in 1..MaxCap : mem = NewMemoryCache(capacity)
  /\ lcTtl = [l1 |-> 1, l2 |-> 1]
  /\ LcIdle
  /\ cb = NewCircuitBreaker(1, 1, 1)
  /\ CbIdle
  /\ SfIdle
  /\ PxIdle
  /\ GtIdle
  /\ BgIdle

\* A step of the memory cache from mem to m2: the new cache, the order of the
\* keys by last use (touched: the step was a Set or a successful Get of key),
\* and the record of the step.
MemStep(op, key, m2, ok, expired, touched) ==
  /\ mem' = m2
  /\ memUse' =
       LET order == IF touched
                    THEN <<key>> \o SelectSeq(memUse, LAMBDA k : k # key)
                    ELSE memUse
       IN SelectSeq(order, LAMBDA k : k \in MemKeysOf(m2))
  /\ memEv' = [op |-> op, key |-> key, ok |-> ok, expired |-> expired,
               full |-> Len(mem.items) >= mem.capacity /\ key \notin MemKeysOf(mem),
               removed |-> (MemKeysOf(mem) \cup (IF op = "set" THEN {key} ELSE {}))
                             \ MemKeysOf(m2),
               oldest |-> IF memUse = << >> THEN "" ELSE memUse[Len(memUse)]]

\* whether Get(key) finds an entry that has expired
MemExpired(m, key, n) ==
  MemIndex(m, key) # 0 /\ After(n, m.items[MemIndex(m, key)].expiresAt)

MemOpGet(key) ==
  /\ LET r == MemGet(mem, key, now) IN
       MemStep("get", key, r.m, r.ok, MemExpired(mem, key, now), r.ok)
  /\ UNCHANGED <<db, lcTtl, lcPc, lcOp, lcRet, lcEv, lcFresh, lcExpect, lcOverlap, lcCalls>>
  /\ UNCHANGED <<sfVars, cbVars, pxVars, gtVars, bgVars>>

MemOpSet(key, value, ttl) ==
  /\ MemStep("set", key, MemSet(mem, key, value, ttl, now), TRUE, FALSE, TRUE)
  /\ UNCHANGED <<db, lcTtl, lcPc, lcOp, lcRet, lcEv, lcFresh, lcExpect, lcOverlap, lcCalls>>
  /\ UNCHANGED <<sfVars, cbVars, pxVars, gtVars, bgVars>>

MemOpDelete(key) ==
  /\ MemStep("delete", key, MemDelete(mem, key), TRUE, FALSE, FALSE)
  /\ UNCHANGED <<db, lcTtl, lcPc, lcOp, lcRet, lcEv, lcFresh, lcExpect, lcOverlap, lcCalls>>
  /\ UNCHANGED <<sfVars, cbVars, pxVars, gtVars, bgVars>>

MemOpClear ==
  /\ MemStep("clear", "", MemClear(mem), TRUE, FALSE, FALSE)
  /\ UNCHANGED <<db, lcTtl, lcPc, lcOp, lcRet, lcEv, lcFresh, lcExpect, lcOverlap, lcCalls>>
  /\ UNCHANGED <<sfVars, cbVars, pxVars, gtVars, bgVars>>

MemOpSweep ==
  /\ MemStep("sweep", "", MemCleanupExpired(mem, now), TRUE, FALSE, FALSE)
  /\ UNCHANGED <<db, lcTtl, lcPc, lcOp, lcRet, lcEv, lcFresh, lcExpect, lcOverlap, lcCalls>>
  /\ UNCHANGED <<sfVars, cbVars, pxVars, gtVars, bgVars>>

\* The clock advances.
MemTick ==
  /\ now < CcMaxTime
  /\ now' = now + 1
  /\ UNCHANGED <<cb, cbHist, sfVars, pxVars, ccVars, gtVars, bgVars>>

MemNext ==
  \/ \E key \in MemKeys : MemOpGet(key)
  \/ \E key \in MemKeys, value \in CcValues, ttl \in 1..MaxTtl : MemOpSet(key, value, ttl)
  \/ \E key \in MemKeys : MemOpDelete(key)
  \/ MemOpClear
  \/ MemOpSweep
  \/ MemTick

(***************************************************************************)
(* SpecCache: a LayeredCache called by concurrent goroutines.  A call is   *)
(* a sequence of steps, one per call of a tier: each tier call is atomic   *)
(* (m.mu, one SQL statement) and the LayeredCache takes no lock of its     *)
(* own.  A statement of the durable cache may fail (dbOk = FALSE).         *)
(***************************************************************************)
\* NewLayeredCache over a durable cache that is empty or holds a row written
\* before the process started (the memory cache starts empty in either case).
InitCache ==
  /\ \E capacity \in 1..LcCap : mem = NewMemoryCache(capacity)
  /\ \E t1 \in 1..MaxTtl, t2 \in 1..MaxTtl :
       /\ lcTtl = [l1 |-> t1, l2 |-> t2]
       /\ db \in {NoRows, DbSet(NoRows, "k1", <<"a">>, t2, 0)}
  /\ LcStarted
  /\ cb = NewCircuitBreaker(1, 1, 1)
  /\ CbIdle
  /\ SfIdle
  /\ PxIdle
  /\ GtIdle
  /\ BgIdle

Min(a, b) == IF a <= b THEN a ELSE b

\* the goroutines between the two tier calls of a Set or a Delete of key
LcWriters(key) ==
  {q \in LcProcs : lcPc[q] \in {"l1set", "l2delete"} /\ lcOp[q].key = key}

\* the goroutines inside a Get of key
LcReaders(key) ==
  {q \in LcProcs : lcPc[q] \in {"l2get", "l2del", "promote"} /\ lcOp[q].key = key}

\* the value a Get that finds e has to return at the present time, if any
LcExpected(e) == IF e.value # NoValue /\ now < e.until THEN e.value ELSE NoValue

\* Goroutine p begins a call; the call is op from here on (NoOp if the call
\* returns in this step).  The goroutines are interchangeable: a call is run
\* by the first one that is idle.  A Set or Delete of a key ends what the last Set of
\* the key promised.
LcBegin(p, op, writes) ==
  /\ lcPc[p] = "idle"
  /\ \A q \in LcProcs : q < p => lcPc[q] # "idle"
  /\ lcCalls < MaxLcCalls
  /\ lcCalls' = lcCalls + 1
  /\ lcOverlap' = (lcOverlap \/ \E q \in LcProcs \ {p} : lcPc[q] # "idle")
  /\ lcOp' = [q \in LcProcs |->
                IF q = p THEN [op EXCEPT !.clean = writes /\ LcWriters(op.key) = {}]
                ELSE IF writes /\ q \in LcWriters(op.key)
                  THEN [lcOp[q] EXCEPT !.clean = FALSE]
                ELSE lcOp[q]]
  /\ lcFresh' = IF writes THEN [lcFresh EXCEPT ![op.key] = NoFresh] ELSE lcFresh
  /\ lcExpect' = [q \in LcProcs |->
                    IF q = p /\ op.kind = "get" THEN lcFresh[op.key]
                    ELSE IF writes /\ q \in LcReaders(op.key) THEN NoFresh
                    ELSE lcExpect[q]]

\* Goroutine p goes on inside its call.
LcGoOn(p, op) ==
  /\ lcOp' = [lcOp EXCEPT ![p] = op]
  /\ UNCHANGED <<lcFresh, lcExpect, lcOverlap, lcCalls>>

\* the call of goroutine p returns
LcResult(kind, key, ok, value, why, expect) ==
  [p |-> 0, kind |-> kind, key |-> key, ok |-> ok, value |-> value, why |-> why,
   expect |-> expect]

LcReturn(p, res) ==
  /\ lcPc' = [lcPc EXCEPT ![p] = "idle"]
  /\ lcRet' = [res EXCEPT !.p = p]

LcStep(p, step, key) == lcEv' = [p |-> p, step |-> step, key |-> key]

\* Get: c.l1.Get(key); a hit returns
LcGetL1(p, key) ==
  /\ LET r == MemGet(mem, key, now) IN
       /\ MemStep("get", key, r.m, r.ok, MemExpired(mem, key, now), r.ok)
       /\ IF r.ok
          THEN /\ LcBegin(p, NoOp, FALSE)
               /\ LcReturn(p, LcResult("get", key, TRUE, r.value, "l1",
                                       LcExpected(lcFresh[key])))
          ELSE /\ LcBegin(p, [NoOp EXCEPT !.kind = "get", !.key = key], FALSE)
               /\ lcPc' = [lcPc EXCEPT ![p] = "l2get"]
               /\ lcRet' = NoRes
  /\ LcStep(p, "l1get", key)
  /\ UNCHANGED <<db, lcTtl>>
  /\ UNCHANGED <<cb, now, cbHist, sfVars, pxVars, gtVars, bgVars>>

\* Get: c.l2.Get(key), the SELECT and the expiry check
LcGetL2(p, dbOk) ==
  /\ lcPc[p] = "l2get"
  /\ LET key == lcOp[p].key
         r == DbGet(db, key, now) IN
       /\ IF ~dbOk \/ ~r.found
          THEN /\ LcReturn(p, LcResult("get", key, FALSE, NoValue,
                                       IF dbOk THEN "miss" ELSE "error", NoValue))
               /\ LcGoOn(p, NoOp)
          ELSE /\ lcPc' = [lcPc EXCEPT ![p] = IF r.expired THEN "l2del" ELSE "promote"]
               /\ LcGoOn(p, [lcOp[p] EXCEPT !.value = r.value])
               /\ lcRet' = NoRes
       /\ LcStep(p, "l2get", key)
  /\ UNCHANGED <<mem, memUse, memEv, db, lcTtl>>
  /\ UNCHANGED <<cb, now, cbHist, sfVars, pxVars, gtVars, bgVars>>

\* Get of the durable cache on an expired row: c.Delete(key), "cache expired"
LcGetExpired(p) ==
  /\ lcPc[p] = "l2del"
  /\ db' = DbDelete(db, lcOp[p].key)
  /\ LcReturn(p, LcResult("get", lcOp[p].key, FALSE, NoValue, "expired", NoValue))
  /\ LcGoOn(p, NoOp)
  /\ LcStep(p, "l2del", lcOp[p].key)
  /\ UNCHANGED <<mem, memUse, memEv, lcTtl>>
  /\ UNCHANGED <<cb, now, cbHist, sfVars, pxVars, gtVars, bgVars>>

\* Get: c.l1.Set(key, value, c.ttl); return value, nil
LcPromote(p) ==
  /\ lcPc[p] = "promote"
  /\ LET key == lcOp[p].key IN
       /\ MemStep("set", key, MemSet(mem, key, lcOp[p].value, lcTtl.l1, now),
                  TRUE, FALSE, TRUE)
       /\ LcReturn(p, LcResult("get", key, TRUE, lcOp[p].value, "l2",
                               LcExpected(lcExpect[p])))
       /\ LcStep(p, "promote", key)
  /\ LcGoOn(p, NoOp)
  /\ UNCHANGED <<db, lcTtl>>
  /\ UNCHANGED <<cb, now, cbHist, sfVars, pxVars, gtVars, bgVars>>

\* Set: c.l2.Set(key, value); an error returns
LcSetL2(p, key, value, dbOk) ==
  /\ IF dbOk
     THEN /\ db' = DbSet(db, key, value, lcTtl.l2, now)
          /\ LcBegin(p, [NoOp EXCEPT !.kind = "set", !.key = key, !.value = value,
                                     !.until = now + lcTtl.l2], TRUE)
          /\ lcPc' = [lcPc EXCEPT ![p] = "l1set"]
          /\ lcRet' = NoRes
     ELSE /\ db' = db
          /\ LcBegin(p, NoOp, FALSE)
          /\ LcReturn(p, LcResult("set", key, FALSE, value, "error", NoValue))
  /\ LcStep(p, "l2set", key)
  /\ UNCHANGED <<mem, memUse, memEv, lcTtl>>
  /\ UNCHANGED <<cb, now, cbHist, sfVars, pxVars, gtVars, bgVars>>

\* Set: return c.l1.Set(key, value, c.ttl)
LcSetL1(p) ==
  /\ lcPc[p] = "l1set"
  /\ LET key == lcOp[p].key IN
       /\ MemStep("set", key, MemSet(mem, key, lcOp[p].value, lcTtl.l1, now),
                  TRUE, FALSE, TRUE)
       /\ LcReturn(p, LcResult("set", key, TRUE, lcOp[p].value, "stored", NoValue))
       /\ lcFresh' = IF lcOp[p].clean
                     THEN [lcFresh EXCEPT ![key] =
                             [value |-> lcOp[p].value,
                              until |-> Min(lcOp[p].until, now + lcTtl.l1)]]
                     ELSE lcFresh
       /\ LcStep(p, "l1set", key)
  /\ lcOp' = [lcOp EXCEPT ![p] = NoOp]
  /\ UNCHANGED <<db, lcTtl, lcExpect, lcOverlap, lcCalls>>
  /\ UNCHANGED <<cb, now, cbHist, sfVars, pxVars, gtVars, bgVars>>

\* Delete: c.l1.Delete(key)
LcDeleteL1(p, key) ==
  /\ MemStep("delete", key, MemDelete(mem, key), TRUE, FALSE, FALSE)
  /\ LcBegin(p, [NoOp EXCEPT !.kind = "delete", !.key = key], TRUE)
  /\ lcPc' = [lcPc EXCEPT ![p] = "l2delete"]
  /\ lcRet' = NoRes
  /\ LcStep(p, "l1del", key)
  /\ UNCHANGED <<db, lcTtl>>
  /\ UNCHANGED <<cb, now, cbHist, sfVars, pxVars, gtVars, bgVars>>

\* Delete: return c.l2.Delete(key)
LcDeleteL2(p, dbOk) ==
  /\ lcPc[p] = "l2delete"
  /\ db' = IF dbOk THEN DbDelete(db, lcOp[p].key) ELSE db
  /\ LcReturn(p, LcResult("delete", lcOp[p].key, dbOk, NoValue,
                          IF dbOk THEN "deleted" ELSE "error", NoValue))
  /\ LcGoOn(p, NoOp)
  /\ LcStep(p, "l2delete", lcOp[p].key)
  /\ UNCHANGED <<mem, memUse, memEv, lcTtl>>
  /\ UNCHANGED <<cb, now, cbHist, sfVars, pxVars, gtVars, bgVars>>

\* CleanupExpired: c.l1.CleanupExpired()
LcSweepL1(p) ==
  /\ MemStep("sweep", "", MemCleanupExpired(mem, now), TRUE, FALSE, FALSE)
  /\ LcBegin(p, [NoOp EXCEPT !.kind = "sweep"], FALSE)
  /\ lcPc' = [lcPc EXCEPT ![p] = "sweep2"]
  /\ lcRet' = NoRes
  /\ LcStep(p, "sweep1", "")
  /\ UNCHANGED <<db, lcTtl>>
  /\ UNCHANGED <<cb, now, cbHist, sfVars, pxVars, gtVars, bgVars>>

\* CleanupExpired: return cleaner.CleanupExpired()
LcSweepL2(p) ==
  /\ lcPc[p] = "sweep2"
  /\ db' = DbCleanupExpired(db, now)
  /\ LcReturn(p, LcResult("sweep", "", TRUE, NoValue, "swept", NoValue))
  /\ LcGoOn(p, NoOp)
  /\ LcStep(p, "sweep2", "")
  /\ UNCHANGED <<mem, memUse, memEv, lcTtl>>
  /\ UNCHANGED <<cb, now, cbHist, sfVars, pxVars, gtVars, bgVars>>

\* ClearL1
LcClearL1(p) ==
  /\ MemStep("clear", "", MemClear(mem), TRUE, FALSE, FALSE)
  /\ LcBegin(p, NoOp, FALSE)
  /\ LcReturn(p, LcResult("clear", "", TRUE, NoValue, "cleared", NoValue))
  /\ LcStep(p, "clear", "")
  /\ UNCHANGED <<db, lcTtl>>
  /\ UNCHANGED <<cb, now, cbHist, sfVars, pxVars, gtVars, bgVars>>

\* The clock advances.
LcTick ==
  /\ now < CcMaxTime
  /\ now' = now + 1
  /\ lcEv' = NoLcEv
  /\ lcRet' = NoRes
  /\ UNCHANGED <<mem, db, lcTtl, lcPc, lcOp, memUse, memEv, lcFresh, lcExpect,
                 lcOverlap, lcCalls>>
  /\ UNCHANGED <<cb, cbHist, sfVars, pxVars, gtVars, bgVars>>

LcNext ==
  \/ \E p \in LcProcs, key \in LcKeys : LcGetL1(p, key)
  \/ \E p \in LcProcs, dbOk \in BOOLEAN : LcGetL2(p, dbOk)
  \/ \E p \in LcProcs : LcGetExpired(p)
  \/ \E p \in LcProcs : LcPromote(p)
  \/ \E p \in LcProcs, key \in LcKeys, value \in CcValues, dbOk \in BOOLEAN :
       LcSetL2(p, key, value, dbOk)
  \/ \E p \in LcProcs : LcSetL1(p)
  \/ \E p \in LcProcs, key \in LcKeys : LcDeleteL1(p, key)
  \/ \E p \in LcProcs, dbOk \in BOOLEAN : LcDeleteL2(p, dbOk)
  \/ \E p \in LcProcs : LcSweepL1(p)
  \/ \E p \in LcProcs : LcSweepL2(p)
  \/ \E p \in LcProcs : LcClearL1(p)
  \/ LcTick

(***************************************************************************)
(* SpecBucket: one tokenBucket called directly, with a clock.              *)
(***************************************************************************)
InitBucket ==
  /\ BgIdle
  /\ \E rate \in 1..MaxRate, burst \in 1..MaxBurst : tb = NewTokenBucket(rate, burst, 0)
  /\ tbEv = NoTbEv
  /\ tbCalls = 0
  /\ tbAdmits = [t \in 0..TbMaxTime |-> 0]
  /\ ipLimiters = NoLimiters
  /\ keyLimiters = NoLimiters
  /\ gtCache = NoGtCache
  /\ gtSsrf = FALSE
  /\ gtEv = NoGtEv
  /\ cb = NewCircuitBreaker(1, 1, 1)
  /\ CbIdle
  /\ SfIdle
  /\ PxIdle
  /\ CcIdle

\* tb.allow()
TbAllow ==
  /\ tbCalls < MaxTbCalls
  /\ LET r == Allow(tb, now) IN
       /\ tb' = r.tb
       /\ tbEv' = [op |-> "allow", ok |-> r.ok]
       /\ tbAdmits' = IF r.ok THEN [tbAdmits EXCEPT ![now] = @ + 1] ELSE tbAdmits
  /\ tbCalls' = tbCalls + 1
  /\ UNCHANGED <<ipLimiters, keyLimiters, gtCache, gtSsrf, gtEv>>
  /\ UNCHANGED <<sfVars, cbVars, pxVars, ccVars, bgVars>>

\* The clock advances.
TbTick ==
  /\ now < TbMaxTime
  /\ now' = now + 1
  /\ UNCHANGED <<cb, cbHist, sfVars, pxVars, ccVars, gtVars, bgVars>>

TbNext ==
  \/ TbAllow
  \/ TbTick

(***************************************************************************)
(* The HTTP handler chain of Daemon.Start and the proxy handler.           *)
(* Start wraps the mux as InputSanitizer(BodySizeLimiter(RateLimiter(      *)
(* SecureHeaders(Recovery(mux))))), so a request runs through the          *)
(* middlewares in that order.  Each operator below takes the state s a     *)
(* request carries through the chain,                                      *)
(*   [ip, key : the limiter maps; cache; cb; headers : w.Header();         *)
(*    trace : the checks made so far; resp; up : the upstream request;     *)
(*    metrics : what this request added to the counters of d.metrics;      *)
(*    health : the JSON document of /health],                              *)
(* the request r and the inputs in of this request,                        *)
(*   [n : the time; eofWithData : the body reader reports EOF with the     *)
(*    last bytes; validated : ValidateURL accepts (it resolves DNS);       *)
(*    upOk : the upstream answers below 400; stored : cache.Set succeeds;  *)
(*    dbOk : d.cache.Stats succeeds; ssrf : d.ssrfProtection != nil],      *)
(* and yields the state after the handler returned.                        *)
(***************************************************************************)
PUT == <<"PUT">>

\* cfg.Security.RateLimitPerIP, RateLimitPerKey, RateLimitBurst of the modelled
\* daemon, and the key its client was built with
GtIpRate == 2
GtKeyRate == 1
GtBurst == 1
APIKey == "configured"

\* The headers SecureHeaders sets on a plain-HTTP connection.
SecurityHeaders ==
  {"X-Frame-Options", "X-Content-Type-Options", "X-XSS-Protection",
   "Content-Security-Policy", "Referrer-Policy"}

\* r.ContentLength: -1 when the request declares none
ContentLength(r) == IF r.declared THEN Len(r.body) ELSE -1

\* What the upstream answers to a request: a body naming the request it answers.
UpstreamBody(method, path, body) == <<method, path, body>>

GtStep(s, name) == [s EXCEPT !.trace = Append(@, name)]

\* http.Error(w, msg, code): it sets Content-Type and X-Content-Type-Options
\* on top of the headers already present, and writes the code.
HttpError(s, code) ==
  [s EXCEPT !.resp = [status |-> code,
                      headers |-> s.headers \cup {"X-Content-Type-Options"},
                      xcache |-> "", offline |-> FALSE, body |-> << >>]]

\* d.writeResponse after the X-Cache and X-Offline headers were set: status 200
GtWriteResponse(s, xcache, offline, body) ==
  [s EXCEPT !.resp = [status |-> 200, headers |-> s.headers, xcache |-> xcache,
                      offline |-> offline, body |-> body]]

\* d.metrics.RecordRequest(method, statusCode, ...): requestsTotal and, for a
\* status of 400 or more, errorCount
RecordRequest(s, statusCode) ==
  [s EXCEPT !.metrics = [requests |-> @.requests + 1,
                         errors |-> IF statusCode >= 400 THEN @.errors + 1
                                    ELSE @.errors]]

\* plugin.FromHTTPRequest: every inbound header is copied to pluginReq.Headers
FromHTTPRequest(r) ==
  [h \in (IF r.apiKey # "" THEN {"X-Api-Key"} ELSE {})
         \cup (IF r.ctype # "" THEN {"Content-Type"} ELSE {}) |->
     IF h = "X-Api-Key" THEN r.apiKey ELSE r.ctype]

\* Client.executeRequest: the three fixed headers are set first, then every
\* header handed in is set over them (Header.Set canonicalises the names).
ExecuteRequestHeaders(headers) ==
  LET fixed == [h \in {"X-Api-Key", "Content-Type", "Accept-Encoding"} |->
                  CASE h = "X-Api-Key" -> APIKey
                    [] h = "Content-Type" -> "json"
                    [] OTHER -> "gzip"]
  IN [h \in DOMAIN fixed \cup DOMAIN headers |->
        IF h \in DOMAIN headers THEN headers[h] ELSE fixed[h]]

\* handleProxy from d.client.Request on: Client.Request, doRequest and
\* CircuitBreaker.Call around executeRequest; a failure is answered 502, a
\* success is written to the cache (the error of Set is dropped) and answered
\* 200 with X-Cache: MISS.
Forward(s, r, in) ==
  LET a == AllowRequest(s.cb, in.n)
      s1 == [GtStep(s, "breaker") EXCEPT !.cb = a.cb]
  IN IF ~a.ok THEN RecordRequest(HttpError(s1, 502), 502)
     ELSE LET s2 == [GtStep(s1, "upstream") EXCEPT
                       !.cb = RecordResult(a.cb, in.upOk, in.n),
                       !.up = [sent |-> TRUE, method |-> r.method, path |-> r.path,
                               body |-> r.body,
                               headers |-> ExecuteRequestHeaders(FromHTTPRequest(r))]]
          IN IF ~in.upOk THEN RecordRequest(HttpError(s2, 502), 502)
             ELSE LET key == GenerateKey(r.method, r.path, r.body)
                      data == UpstreamBody(r.method, r.path, r.body)
                      s3 == GtStep(s2, "cacheset")
                      s4 == IF in.stored
                            THEN [s3 EXCEPT !.cache =
                                    [k \in DOMAIN s3.cache \cup {key} |->
                                       IF k = key THEN data ELSE s3.cache[k]]]
                            ELSE s3
                  IN RecordRequest(GtWriteResponse(s4, "MISS", FALSE, data), 200)

\* A variant of the SSRF step that forwards without asking the validator.
SsrfGateBypassed(s, r, in) == Forward(s, r, in)

\* handleProxy, the SSRF step: ValidateURL(d.client.BaseURL + endpoint); the
\* trace notes the call ("ssrf") and a nil result ("validated")
SsrfGate(s, r, in) ==
  IF in.ssrf
  THEN LET s1 == GtStep(s, "ssrf") IN
         IF ~in.validated THEN RecordRequest(HttpError(s1, 403), 403)
         ELSE Forward(GtStep(s1, "validated"), r, in)
  ELSE Forward(s, r, in)

\* A variant of the offline step that lets an offline miss go on.
OfflineMissForwarded(s, r, in) == SsrfGate(GtStep(s, "offline"), r, in)

\* handleProxy, the offline step after a cache miss
OfflineMiss(s, r, in) ==
  LET s1 == GtStep(s, "offline") IN
    IF IsEndpointOffline(r.path) THEN HttpError(s1, 503) ELSE SsrfGate(s1, r, in)

\* handleProxy, the cache step: cacheKey, d.cache.Get, the HIT response
CacheLookup(s, r, in) ==
  LET key == GenerateKey(r.method, r.path, r.body)
      s1 == GtStep(s, "cacheget")
  IN IF key \in DOMAIN s1.cache
     THEN RecordRequest(GtWriteResponse(s1, "HIT", IsEndpointOffline(r.path),
                                        s1.cache[key]), 200)
     ELSE OfflineMiss(s1, r, in)

\* handleProxy, the body step: io.ReadAll(LimitReader(r.Body, max))
ReadBody(s, r, in) ==
  LET s1 == GtStep(s, "readbody") IN
    IF ~ReadBodyOk(r.body, MaxBody, in.eofWithData) THEN HttpError(s1, 413)
    ELSE CacheLookup(s1, r, in)

\* A variant of handleProxy without the whitelist check.
HandleProxyNoPolicy(s, r, in) == ReadBody(GtStep(s, "policy"), r, in)

\* handleProxy: the whitelist check on the path after /api, then the rest
HandleProxy(s, r, in) ==
  LET s1 == GtStep(s, "policy") IN
    IF ~IsEndpointWhitelisted(r.path) THEN HttpError(s1, 403)
    ELSE ReadBody(s1, r, in)

\* handleHealth: the HTTP status and the "status" member are fixed by the
\* database check before the components are looked at; the breaker shows in
\* components.upstream_client only (the later status = "degraded" changes a
\* local variable after the response map was built).
HandleHealth(s, in) ==
  LET s1 == GtStep(s, "health") IN
    [s1 EXCEPT
       !.resp = [status |-> IF in.dbOk THEN 200 ELSE 503, headers |-> s1.headers,
                 xcache |-> "", offline |-> FALSE, body |-> << >>],
       !.health = [status |-> IF in.dbOk THEN "ok" ELSE "degraded",
                   database |-> IF in.dbOk THEN "ok" ELSE "error",
                   upstream |-> IF s1.cb.state = StateOpen THEN "circuit_open"
                                ELSE "ok"]]

\* RecoveryMiddleware around the mux, which routes /health to handleHealth and
\* /api/ to handleProxy
RecoveryMiddleware(s, r, in) ==
  IF r.route = "health" THEN HandleHealth(s, in) ELSE HandleProxy(s, r, in)

\* SecureHeaders: sets the headers, then calls the next handler
SecureHeaders(s, r, in) ==
  RecoveryMiddleware([GtStep(s, "headers") EXCEPT !.headers = @ \cup SecurityHeaders],
                     r, in)

\* RateLimiter.allowIP / allowKey on a limiter map: the bucket of id, created
\* full when absent, then bucket.allow()
AllowLimiter(limiters, id, rate, n) ==
  LET bucket == IF id \in DOMAIN limiters THEN limiters[id]
                ELSE NewTokenBucket(rate, GtBurst, n)
      a == Allow(bucket, n)
  IN [limiters |-> [k \in DOMAIN limiters \cup {id} |->
                      IF k = id THEN a.tb ELSE limiters[k]],
      ok |-> a.ok]

\* A variant of RateLimiter.Middleware that asks the key bucket first.
RateLimiterKeyFirst(s, r, in) ==
  LET k == AllowLimiter(s.key, r.apiKey, GtKeyRate, in.n)
      s1 == IF r.apiKey # "" THEN [GtStep(s, "keybucket") EXCEPT !.key = k.limiters]
            ELSE s
  IN IF r.apiKey # "" /\ ~k.ok THEN HttpError(s1, 429)
     ELSE LET i == AllowLimiter(s1.ip, r.ip, GtIpRate, in.n)
              s2 == [GtStep(s1, "ipbucket") EXCEPT !.ip = i.limiters]
          IN IF ~i.ok THEN HttpError(s2, 429) ELSE SecureHeaders(s2, r, in)

\* RateLimiter.Middleware: r.ip is what getClientIP returns for the request
RateLimiterMiddleware(s, r, in) ==
  LET i == AllowLimiter(s.ip, r.ip, GtIpRate, in.n)
      s1 == [GtStep(s, "ipbucket") EXCEPT !.ip = i.limiters]
  IN IF ~i.ok THEN HttpError(s1, 429)
     ELSE IF r.apiKey # ""
          THEN LET k == AllowLimiter(s1.key, r.apiKey, GtKeyRate, in.n)
                   s2 == [GtStep(s1, "keybucket") EXCEPT !.key = k.limiters]
               IN IF ~k.ok THEN HttpError(s2, 429) ELSE SecureHeaders(s2, r, in)
          ELSE SecureHeaders(s1, r, in)

\* BodySizeLimiter(MaxBody): the declared length is checked, then the body is
\* wrapped in a MaxBytesReader, which the reader of handleProxy never exceeds
BodySizeLimiter(s, r, in) ==
  LET s1 == GtStep(s, "bodysize") IN
    IF ContentLength(r) > MaxBody THEN HttpError(s1, 413)
    ELSE RateLimiterMiddleware(s1, r, in)

\* InputSanitizer: POST and PUT with a content type other than JSON get 415
InputSanitizer(s, r, in) ==
  LET s1 == GtStep(s, "sanitize") IN
    IF r.method \in {POST, PUT} /\ r.ctype # "" /\ r.ctype # "json"
    THEN HttpError(s1, 415)
    ELSE BodySizeLimiter(s1, r, in)

\* d.server.Handler
ServeHTTP(s, r, in) == InputSanitizer(s, r, in)

(***************************************************************************)
(* SpecGate: requests served one after the other by the whole handler      *)
(* chain of a daemon with rate limiting and the body cap enabled, a client *)
(* with a key, no plugin, and SSRF protection enabled or not.  The daemon   *)
(* starts on a durable cache that may hold answers stored earlier for the  *)
(* offline path and for a path that has left the whitelist since; cache    *)
(* entries outlive the modelled interval.                                  *)
(***************************************************************************)
GtBody(len) == [i \in 1..len |-> "1"]

GtPathX == <<"/", "a", "/", "x">>
GtPathY == <<"/", "a", "/", "y">>
GtPathO == <<"/", "a", "/", "o">>
GtPathB == <<"/", "b", "/", "x">>

GtReq(method, path, body, declared, ctype, apiKey) ==
  [route |-> "api", method |-> method, path |-> path, body |-> body,
   declared |-> declared, ctype |-> ctype, ip |-> "ip1", apiKey |-> apiKey]

\* GET /health
GtHealthReq == [GtReq(GET, << >>, << >>, TRUE, "", "") EXCEPT !.route = "health"]

\* The requests of SpecGate, all from one client address: a plain GET, the
\* same with an X-API-Key header of its own, POSTs with a body of exactly
\* MaxBody bytes and of one more (length declared or not), a POST whose path
\* ends with the body of another, a POST that is not JSON, a path outside the
\* whitelist, an offline path and GET /health.
GtRequests ==
  { GtReq(GET, GtPathX, << >>, TRUE, "", ""),
    GtReq(GET, GtPathX, << >>, TRUE, "", "inbound"),
    GtReq(POST, GtPathY, GtBody(MaxBody), TRUE, "json", ""),
    GtReq(POST, GtPathY, GtBody(MaxBody), FALSE, "json", ""),
    GtReq(POST, GtPathY \o GtBody(MaxBody), << >>, TRUE, "json", ""),
    GtReq(POST, GtPathY, GtBody(MaxBody + 1), TRUE, "json", ""),
    GtReq(POST, GtPathY, GtBody(MaxBody + 1), FALSE, "json", ""),
    GtReq(POST, GtPathY, GtBody(MaxBody), TRUE, "text", ""),
    GtReq(GET, GtPathB, << >>, TRUE, "", ""),
    GtReq(GET, GtPathO, << >>, TRUE, "", ""),
    GtHealthReq }

InitGate ==
  /\ BgIdle
  /\ cb = NewCircuitBreaker(1, 1, 1)
  /\ CbIdle
  /\ SfIdle
  /\ PxIdle
  /\ CcIdle
  /\ tb = NewTokenBucket(1, 1, 0)
  /\ tbEv = NoTbEv
  /\ tbCalls = 0
  /\ tbAdmits = [t \in 0..TbMaxTime |-> 0]
  /\ ipLimiters = NoLimiters
  /\ keyLimiters = NoLimiters
  /\ \E warm \in SUBSET {GtPathO, GtPathB} :
       gtCache = [k \in {GenerateKey(GET, path, << >>) : path \in warm} |->
                    UpstreamBody(GET, <<k[2], k[3], k[4], k[5]>>, << >>)]
  /\ gtSsrf \in BOOLEAN
  /\ gtEv = NoGtEv

\* One request served from arrival to the response.  An input nobody reads is
\* fixed: the validator accepts when SSRF protection is off, a body shorter
\* or longer than MaxBody ends with its last bytes, cache.Set succeeds when
\* the upstream failed, and only /health looks at the database check, which
\* is all it looks at.
GtServe(r, eofWithData, validated, upOk, stored, dbOk) ==
  /\ ~gtSsrf => validated
  /\ Len(r.body) # MaxBody => eofWithData
  /\ ~upOk => stored
  /\ r.route # "health" => dbOk
  /\ r.route = "health" => (validated /\ upOk)
  /\ LET in == [n |-> now, eofWithData |-> eofWithData, validated |-> validated,
                upOk |-> upOk, stored |-> stored, dbOk |-> dbOk, ssrf |-> gtSsrf]
         s0 == [ip |-> ipLimiters, key |-> keyLimiters, cache |-> gtCache, cb |-> cb,
                headers |-> {}, trace |-> << >>, resp |-> NoGtResp, up |-> NoUp,
                metrics |-> NoMetrics, health |-> NoHealth]
         s == ServeHTTP(s0, r, in)
     IN /\ ipLimiters' = s.ip
        /\ keyLimiters' = s.key
        /\ gtCache' = s.cache
        /\ cb' = s.cb
        /\ gtEv' = [op |-> "serve", req |-> r,
                    ipEmpty |-> /\ r.ip \in DOMAIN ipLimiters
                                /\ ~Allow(ipLimiters[r.ip], now).ok,
                    cached |-> GenerateKey(r.method, r.path, r.body) \in DOMAIN gtCache,
                    trace |-> s.trace, resp |-> s.resp, up |-> s.up,
                    metrics |-> s.metrics, health |-> s.health]
  /\ UNCHANGED <<tb, tbEv, tbCalls, tbAdmits, gtSsrf>>
  /\ UNCHANGED <<now, cbHist, sfVars, pxVars, ccVars, bgVars>>

\* The clock advances.
GtTick ==
  /\ now < GtMaxTime
  /\ now' = now + 1
  /\ gtEv' = NoGtEv
  /\ UNCHANGED <<tb, tbEv, tbCalls, tbAdmits, ipLimiters, keyLimiters, gtCache, gtSsrf>>
  /\ UNCHANGED <<cb, cbHist, sfVars, pxVars, ccVars, bgVars>>

GtNext ==
  \/ \E r \in GtRequests, eofWithData, validated, upOk, stored, dbOk \in BOOLEAN :
       GtServe(r, eofWithData, validated, upOk, stored, dbOk)
  \/ GtTick

(***************************************************************************)
(* SpecShutdown: the goroutine started by Scheduler.Start                  *)
(* (pkg/daemon/scheduler.go) beside the shutdown statements of             *)
(* Daemon.Start (pkg/daemon/daemon.go).  The context given to the          *)
(* scheduler is context.Background(), which is never cancelled.            *)
(***************************************************************************)
MaxTicks == 3        \* ticks the ticker delivers in one behaviour of SpecShutdown

InitShutdown ==
  /\ cb = NewCircuitBreaker(1, 1, 1)
  /\ CbIdle
  /\ SfIdle
  /\ PxIdle
  /\ CcIdle
  /\ GtIdle
  /\ RlIdle
  /\ StIdle
  /\ sdPc = "serving"
  /\ jnPc = "initial"
  /\ tickerC = FALSE
  /\ tickerStopped = FALSE
  /\ schedDone = FALSE
  /\ dbClosed = FALSE
  /\ jnLayered \in BOOLEAN
  /\ jnTicks = 0
  /\ jnEv = NoJnEv

\* The ticker delivers a tick; ticker.C keeps one tick, a tick that finds the
\* channel full is dropped.
TickerFire ==
  /\ ~tickerStopped
  /\ jnTicks < MaxTicks
  /\ tickerC' = TRUE
  /\ jnTicks' = jnTicks + 1
  /\ UNCHANGED <<sdPc, jnPc, tickerStopped, schedDone, dbClosed, jnLayered, jnEv>>
  /\ UNCHANGED <<sfVars, cbVars, pxVars, ccVars, gtVars, rlVars, stVars>>

\* runCleanup is entered: the goroutine is at the CleanupExpired call of line 67
RunCleanup ==
  /\ jnPc' = "first"
  /\ jnEv' = [op |-> "begin", closed |-> dbClosed, stopped |-> schedDone]

\* The goroutine starts with a cleanup, before it waits for anything.
JnInitial ==
  /\ jnPc = "initial"
  /\ RunCleanup
  /\ UNCHANGED <<sdPc, tickerC, tickerStopped, schedDone, dbClosed, jnLayered, jnTicks>>
  /\ UNCHANGED <<sfVars, cbVars, pxVars, ccVars, gtVars, rlVars, stVars>>

\* select takes the tick.  When s.done is closed as well, both cases are ready
\* and select takes either.
JnSelectTick ==
  /\ jnPc = "select"
  /\ tickerC
  /\ tickerC' = FALSE
  /\ RunCleanup
  /\ UNCHANGED <<sdPc, tickerStopped, schedDone, dbClosed, jnLayered, jnTicks>>
  /\ UNCHANGED <<sfVars, cbVars, pxVars, ccVars, gtVars, rlVars, stVars>>

\* select takes the closed s.done: the goroutine returns.
JnSelectDone ==
  /\ jnPc = "select"
  /\ schedDone
  /\ jnPc' = "exit"
  /\ jnEv' = [op |-> "exit", closed |-> dbClosed, stopped |-> schedDone]
  /\ UNCHANGED <<sdPc, tickerC, tickerStopped, schedDone, dbClosed, jnLayered, jnTicks>>
  /\ UNCHANGED <<sfVars, cbVars, pxVars, ccVars, gtVars, rlVars, stVars>>

\* SQLiteCache.CleanupExpired: a DELETE on the database handle.  It fails on a
\* closed handle.
CleanupExpired(closed) == [err |-> closed]

\* runCleanup, line 67: s.cache has a CleanupExpired() error method, be it the
\* durable cache or the LayeredCache over it (which cleans L1 and then the
\* durable cache); an error ends runCleanup.
JnCleanupFirst ==
  /\ jnPc = "first"
  /\ jnEv' = [op |-> "exec", closed |-> dbClosed, stopped |-> schedDone]
  /\ jnPc' = IF CleanupExpired(dbClosed).err THEN "select"
             ELSE IF jnLayered THEN "second" ELSE "select"
  /\ UNCHANGED <<sdPc, tickerC, tickerStopped, schedDone, dbClosed, jnLayered, jnTicks>>
  /\ UNCHANGED <<sfVars, cbVars, pxVars, ccVars, gtVars, rlVars, stVars>>

\* runCleanup, line 75: a LayeredCache is cleaned a second time, its error dropped.
JnCleanupSecond ==
  /\ jnPc = "second"
  /\ jnEv' = [op |-> "exec", closed |-> dbClosed, stopped |-> schedDone]
  /\ jnPc' = "select"
  /\ UNCHANGED <<sdPc, tickerC, tickerStopped, schedDone, dbClosed, jnLayered, jnTicks>>
  /\ UNCHANGED <<sfVars, cbVars, pxVars, ccVars, gtVars, rlVars, stVars>>

\* Daemon.Start: the signal arrives and d.server.Shutdown runs; when it fails
\* Start returns at once, the cache left open and the scheduler running.
SdShutdown(ok) ==
  /\ sdPc = "serving"
  /\ sdPc' = IF ok THEN "close" ELSE "returned"
  /\ UNCHANGED <<jnPc, tickerC, tickerStopped, schedDone, dbClosed, jnLayered, jnTicks, jnEv>>
  /\ UNCHANGED <<sfVars, cbVars, pxVars, ccVars, gtVars, rlVars, stVars>>

\* Daemon.Start: d.cache.Close()
SdCacheClose ==
  /\ sdPc = "close"
  /\ dbClosed' = TRUE
  /\ sdPc' = "stop"
  /\ UNCHANGED <<jnPc, tickerC, tickerStopped, schedDone, jnLayered, jnTicks, jnEv>>
  /\ UNCHANGED <<sfVars, cbVars, pxVars, ccVars, gtVars, rlVars, stVars>>

\* Scheduler.Stop, first statement: s.ticker.Stop().  A tick already in
\* ticker.C stays there.
SdTickerStop ==
  /\ sdPc = "stop"
  /\ tickerStopped' = TRUE
  /\ sdPc' = "closedone"
  /\ UNCHANGED <<jnPc, tickerC, schedDone, dbClosed, jnLayered, jnTicks, jnEv>>
  /\ UNCHANGED <<sfVars, cbVars, pxVars, ccVars, gtVars, rlVars, stVars>>

\* Scheduler.Stop, second statement: close(s.done); Stop returns without
\* waiting for the goroutine.
SdCloseDone ==
  /\ sdPc = "closedone"
  /\ schedDone' = TRUE
  /\ sdPc' = "returned"
  /\ UNCHANGED <<jnPc, tickerC, tickerStopped, dbClosed, jnLayered, jnTicks, jnEv>>
  /\ UNCHANGED <<sfVars, cbVars, pxVars, ccVars, gtVars, rlVars, stVars>>

SdNext ==
  \/ TickerFire
  \/ JnInitial
  \/ JnSelectTick
  \/ JnSelectDone
  \/ JnCleanupFirst
  \/ JnCleanupSecond
  \/ \E ok \in BOOLEAN : SdShutdown(ok)
  \/ SdCacheClose
  \/ SdTickerStop
  \/ SdCloseDone

(***************************************************************************)
(* SpecSweep: RateLimiter.allowIP called by concurrent request goroutines  *)
(* for one address, beside the cleanup goroutine                           *)
(* (pkg/middleware/ratelimit.go).                                          *)
(***************************************************************************)
\* cleanup removes a bucket whose last allow call is more than 10 minutes
\* ago; the clock counts units of 5 minutes, the period of cleanupTicker.
IdleLimit == 2

RlAddr == "ip1"

InitSweep ==
  /\ cb = NewCircuitBreaker(1, 1, 1)
  /\ CbIdle
  /\ SfIdle
  /\ PxIdle
  /\ CcIdle
  /\ GtIdle
  /\ JnIdle
  /\ StIdle
  /\ \E rate \in 1..MaxRate, burst \in 1..MaxBurst : rlCfg = [rate |-> rate, burst |-> burst]
  /\ rlHeap = << >>
  /\ rlIp = [ip \in {} |-> 0]
  /\ rlPc = [p \in RlProcs |-> "idle"]
  /\ rlHeld = [p \in RlProcs |-> 0]
  /\ rlCalls = 0
  /\ rlAdmits = [t \in 0..RlMaxTime |-> 0]
  /\ rlEv = NoRlEv

\* allowIP, under rl.mu: the bucket of the address is looked up, and created
\* full when the map has none.
RlLookup(p) ==
  /\ rlPc[p] = "idle"
  /\ rlCalls < MaxRlCalls
  /\ rlCalls' = rlCalls + 1
  /\ IF RlAddr \in DOMAIN rlIp
     THEN /\ rlHeld' = [rlHeld EXCEPT ![p] = rlIp[RlAddr]]
          /\ UNCHANGED <<rlHeap, rlIp>>
     ELSE /\ rlHeap' = Append(rlHeap, NewTokenBucket(rlCfg.rate, rlCfg.burst, now))
          /\ rlIp' = [ip \in {RlAddr} |-> Len(rlHeap) + 1]
          /\ rlHeld' = [rlHeld EXCEPT ![p] = Len(rlHeap) + 1]
  /\ rlPc' = [rlPc EXCEPT ![p] = "allow"]
  /\ rlEv' = [op |-> "lookup", evicted |-> FALSE, inflight |-> FALSE]
  /\ UNCHANGED <<rlCfg, rlAdmits>>
  /\ UNCHANGED <<cb, now, cbHist, sfVars, pxVars, ccVars, gtVars, jnVars, stVars>>

\* allowIP, after rl.mu is released: bucket.allow() on the bucket it holds
RlAllow(p) ==
  /\ rlPc[p] = "allow"
  /\ LET r == Allow(rlHeap[rlHeld[p]], now) IN
       /\ rlHeap' = [rlHeap EXCEPT ![rlHeld[p]] = r.tb]
       /\ rlAdmits' = IF r.ok THEN [rlAdmits EXCEPT ![now] = @ + 1] ELSE rlAdmits
  /\ rlPc' = [rlPc EXCEPT ![p] = "idle"]
  /\ rlHeld' = [rlHeld EXCEPT ![p] = 0]
  /\ rlEv' = [op |-> "allow", evicted |-> FALSE, inflight |-> FALSE]
  /\ UNCHANGED <<rlCfg, rlIp, rlCalls>>
  /\ UNCHANGED <<cb, now, cbHist, sfVars, pxVars, ccVars, gtVars, jnVars, stVars>>

\* the addresses cleanup removes at time n
Stale(n) == {ip \in DOMAIN rlIp : n - rlHeap[rlIp[ip]].lastRefill > IdleLimit}

\* cleanup, one tick of cleanupTicker: under rl.mu and the mutex of each
\* bucket, the buckets not used for more than the idle limit leave the map.
RlCleanup ==
  /\ rlIp' = [ip \in DOMAIN rlIp \ Stale(now) |-> rlIp[ip]]
  /\ rlEv' = [op |-> "cleanup", evicted |-> Stale(now) # {},
              inflight |-> \E p \in RlProcs : rlPc[p] = "allow"]
  /\ UNCHANGED <<rlCfg, rlHeap, rlPc, rlHeld, rlCalls, rlAdmits>>
  /\ UNCHANGED <<cb, now, cbHist, sfVars, pxVars, ccVars, gtVars, jnVars, stVars>>

\* The clock advances.
RlTick ==
  /\ now < RlMaxTime
  /\ now' = now + 1
  /\ rlEv' = NoRlEv
  /\ UNCHANGED <<rlCfg, rlHeap, rlIp, rlPc, rlHeld, rlCalls, rlAdmits>>
  /\ UNCHANGED <<cb, cbHist, sfVars, pxVars, ccVars, gtVars, jnVars, stVars>>

RlNext ==
  \/ \E p \in RlProcs : RlLookup(p)
  \/ \E p \in RlProcs : RlAllow(p)
  \/ RlCleanup
  \/ RlTick

(***************************************************************************)
(* SpecStats: LayeredCache.Get called by concurrent goroutines, with the   *)
(* counters Stats reads (pkg/cache/layered.go, pkg/cache/memory.go).  The  *)
(* MemoryCache counts under its mutex; c.l1Miss++ and c.l2Miss++ are a     *)
(* load and a store with no lock around them.                              *)
(***************************************************************************)
InitStats ==
  /\ cb = NewCircuitBreaker(1, 1, 1)
  /\ CbIdle
  /\ SfIdle
  /\ PxIdle
  /\ GtIdle
  /\ JnIdle
  /\ RlIdle
  /\ LcStarted
  /\ \E capacity \in 1..MaxCap : mem = NewMemoryCache(capacity)
  /\ lcTtl = [l1 |-> 1, l2 |-> 1]
  /\ db \in {NoRows, DbSet(NoRows, "k1", <<"a">>, 1, 0)}
  /\ StIdle

\* Get: c.l1.Get(key), which counts a hit or a miss of its own; a hit returns
StGetL1(p, key) ==
  /\ stPc[p] = "idle"
  /\ stCalls < MaxStCalls
  /\ stCalls' = stCalls + 1
  /\ LET r == MemGet(mem, key, now) IN
       /\ mem' = r.m
       /\ IF r.ok
          THEN /\ stCnt' = [stCnt EXCEPT !.hits = @ + 1]
               /\ stDone' = [stDone EXCEPT !.value = @ + 1]
               /\ UNCHANGED <<stPc, stOp>>
          ELSE /\ stCnt' = [stCnt EXCEPT !.misses = @ + 1]
               /\ stPc' = [stPc EXCEPT ![p] = "l2get"]
               /\ stOp' = [stOp EXCEPT ![p] = [key |-> key, value |-> NoValue]]
               /\ UNCHANGED stDone
  /\ UNCHANGED <<stTmp, db, lcTtl, lcPc, lcOp, lcRet, lcEv, memUse, memEv, lcFresh,
                 lcExpect, lcOverlap, lcCalls>>
  /\ UNCHANGED <<cb, now, cbHist, sfVars, pxVars, gtVars, jnVars, rlVars>>

\* Get: c.l2.Get(key); the durable cache deletes an expired row
StGetL2(p) ==
  /\ stPc[p] = "l2get"
  /\ LET r == DbGet(db, stOp[p].key, now) IN
       /\ db' = IF r.found /\ r.expired THEN DbDelete(db, stOp[p].key) ELSE db
       /\ stPc' = [stPc EXCEPT ![p] = IF r.found /\ ~r.expired THEN "l1miss" ELSE "l2miss"]
       /\ stOp' = [stOp EXCEPT ![p].value = r.value]
  /\ UNCHANGED <<stTmp, stCnt, stDone, stCalls>>
  /\ UNCHANGED <<mem, lcTtl, lcPc, lcOp, lcRet, lcEv, memUse, memEv, lcFresh,
                 lcExpect, lcOverlap, lcCalls>>
  /\ UNCHANGED <<cb, now, cbHist, sfVars, pxVars, gtVars, jnVars, rlVars>>

\* c.l2Miss++ or c.l1Miss++, the load
StLoad(p) ==
  /\ stPc[p] \in {"l1miss", "l2miss"}
  /\ stTmp' = [stTmp EXCEPT ![p] = IF stPc[p] = "l1miss" THEN stCnt.l1Miss
                                    ELSE stCnt.l2Miss]
  /\ stPc' = [stPc EXCEPT ![p] = IF stPc[p] = "l1miss" THEN "l1store" ELSE "l2store"]
  /\ UNCHANGED <<stOp, stCnt, stDone, stCalls>>
  /\ UNCHANGED <<ccVars, cb, now, cbHist, sfVars, pxVars, gtVars, jnVars, rlVars>>

\* c.l2Miss++, the store; return nil, err
StStoreL2Miss(p) ==
  /\ stPc[p] = "l2store"
  /\ stCnt' = [stCnt EXCEPT !.l2Miss = stTmp[p] + 1]
  /\ stDone' = [stDone EXCEPT !.miss = @ + 1]
  /\ stPc' = [stPc EXCEPT ![p] = "idle"]
  /\ stOp' = [stOp EXCEPT ![p] = NoStOp]
  /\ stTmp' = [stTmp EXCEPT ![p] = 0]
  /\ UNCHANGED stCalls
  /\ UNCHANGED <<ccVars, cb, now, cbHist, sfVars, pxVars, gtVars, jnVars, rlVars>>

\* c.l1Miss++, the store
StStoreL1Miss(p) ==
  /\ stPc[p] = "l1store"
  /\ stCnt' = [stCnt EXCEPT !.l1Miss = stTmp[p] + 1]
  /\ stPc' = [stPc EXCEPT ![p] = "promote"]
  /\ stTmp' = [stTmp EXCEPT ![p] = 0]
  /\ UNCHANGED <<stOp, stDone, stCalls>>
  /\ UNCHANGED <<ccVars, cb, now, cbHist, sfVars, pxVars, gtVars, jnVars, rlVars>>

\* Get: c.l1.Set(key, value, c.ttl); return value, nil
StPromote(p) ==
  /\ stPc[p] = "promote"
  /\ mem' = MemSet(mem, stOp[p].key, stOp[p].value, lcTtl.l1, now)
  /\ stDone' = [stDone EXCEPT !.value = @ + 1]
  /\ stPc' = [stPc EXCEPT ![p] = "idle"]
  /\ stOp' = [stOp EXCEPT ![p] = NoStOp]
  /\ UNCHANGED <<stTmp, stCnt, stCalls>>
  /\ UNCHANGED <<db, lcTtl, lcPc, lcOp, lcRet, lcEv, memUse, memEv, lcFresh,
                 lcExpect, lcOverlap, lcCalls>>
  /\ UNCHANGED <<cb, now, cbHist, sfVars, pxVars, gtVars, jnVars, rlVars>>

\* LayeredCache.Stats: the hits and misses it reports
LayeredStats(cnt) == [hits |-> cnt.hits + cnt.l1Miss, misses |-> cnt.l2Miss]

StNext ==
  \/ \E p \in StProcs, key \in LcKeys : StGetL1(p, key)
  \/ \E p \in StProcs : StGetL2(p)
  \/ \E p \in StProcs : StLoad(p)
  \/ \E p \in StProcs : StStoreL2Miss(p)
  \/ \E p \in StProcs : StStoreL1Miss(p)
  \/ \E p \in StProcs : StPromote(p)

vars == <<sfVars, cbVars, pxVars, ccVars, gtVars, bgVars>>

SpecSF == InitSF /\ [][SfNext]_vars

SpecCB == InitCB /\ [][CbNext]_vars

SpecProxy == InitProxy /\ [][PxNext]_vars

SpecMem == InitMem /\ [][MemNext]_vars

SpecCache == InitCache /\ [][LcNext]_vars

SpecBucket == InitBucket /\ [][TbNext]_vars

SpecGate == InitGate /\ [][GtNext]_vars

SpecShutdown == InitShutdown /\ [][SdNext]_vars

SpecSweep == InitSweep /\ [][RlNext]_vars

SpecStats == InitStats /\ [][StNext]_vars

(***************************************************************************)
(* Claims about SingleFlight.Do (checked under SpecSF).                    *)
(***************************************************************************)
SfIsLeader(c) == sfHeld[c] # NoCall /\ sfRecs[sfHeld[c]].leader = c
SfIsWaiter(c) == sfHeld[c] # NoCall /\ sfRecs[sfHeld[c]].leader # c

C4NoRecordAfterLeader ==
  \A c \in Callers :
    (sfPc[c] \in {"done", "panicked"} /\ SfIsLeader(c)) =>
      /\ SFLookup(sfCalls, sfKey[c]) # sfHeld[c]
      /\ sfRecs[sfHeld[c]].done
      /\ sfPc[c] = "panicked" => sfRecs[sfHeld[c]].err # Nil

\* C5 as stated: a waiter whose caller cancelled while it was waiting returns
\* a Cancelled error.
C5CancelledWaiterReturnsCancelled ==
  \A c \in Callers :
    (sfPc[c] = "done" /\ sfCancelAt[c] = "wait") => sfRet[c].err = Cancelled

(***************************************************************************)
(* Claims about CircuitBreaker (checked under SpecCB).  cbEv describes the *)
(* step that led to the current state and the breaker as that step found   *)
(* it; cbRun, cbHoSucc and cbHoRun count recorded results independently of *)
(* the breaker's own counters.                                             *)
(***************************************************************************)
CbRecorded(pre, ok) == cbEv.op = "record" /\ cbEv.pre = pre /\ cbEv.ok = ok
CbArrived(pre) == cbEv.op = "allow" /\ cbEv.pre = pre

\* C6: with threshold k, a Closed breaker has recorded fewer than k failures
\* since the last success and failureCount is that number; the failure that
\* makes it k moves the breaker to Open, an earlier one leaves it Closed, and
\* a success recorded while Closed leaves it Closed with failureCount 0.
C6ClosedOpensAtThreshold ==
  /\ cb.state = StateClosed => cb.failureCount = cbRun /\ cbRun < cb.threshold
  /\ CbRecorded(StateClosed, FALSE) =>
       /\ cbRun = cb.threshold => cb.state = StateOpen
       /\ cbRun < cb.threshold => cb.state = StateClosed
       /\ cbRun <= cb.threshold
  /\ CbRecorded(StateClosed, TRUE) =>
       cb.state = StateClosed /\ cb.failureCount = 0

\* C6 witness: the third consecutive failure opened a breaker of threshold 3.
C6Witness ==
  /\ CbRecorded(StateClosed, FALSE)
  /\ cb.state = StateOpen
  /\ cb.threshold >= 3
  /\ cbRun = cb.threshold

\* C8 as stated: a call that arrives while the breaker is Open and
\* now - lastFailureTime >= timeout moves it to HalfOpen with both counters
\* reset and is admitted.
C8ProbeAtTimeout ==
  (CbArrived(StateOpen) /\ cbEv.since >= cb.timeout) =>
    /\ cb.state = StateHalfOpen
    /\ cb.successCount = 0 /\ cb.failureCount = 0
    /\ cbEv.ok

\* C8 as amended: a call that arrives while the breaker is Open moves it to
\* HalfOpen, resets both counters and is admitted when
\* now - lastFailureTime > timeout; when now - lastFailureTime <= timeout (in
\* particular when exactly timeout has passed) it is rejected and the breaker
\* stays Open.
C8ProbeAfterTimeout ==
  CbArrived(StateOpen) =>
    IF cbEv.since > cb.timeout
    THEN /\ cb.state = StateHalfOpen
         /\ cb.successCount = 0 /\ cb.failureCount = 0
         /\ cbEv.ok
         /\ \E p \in Procs : cbPc[p] = "probe"
    ELSE cb.state = StateOpen /\ ~cbEv.ok

\* C8 witness: a call arrived at an Open breaker later than timeout after the
\* last failure and was admitted as the half-open probe.
C8Witness ==
  /\ CbArrived(StateOpen)
  /\ cbEv.since > cb.timeout
  /\ cb.state = StateHalfOpen
  /\ cbEv.ok
  /\ cbRun > 0

\* C9 as stated: a failure recorded while HalfOpen moves the breaker to Open
\* and stamps lastFailureTime.
C9HalfOpenFailureOpens ==
  CbRecorded(StateHalfOpen, FALSE) =>
    cb.state = StateOpen /\ cb.lastFailureTime = now

\* C10: a HalfOpen breaker has recorded fewer than halfOpenMax successes
\* since it became HalfOpen (so halfOpenMax consecutive successes cannot leave
\* it HalfOpen), and a success recorded while HalfOpen moves it to Closed
\* exactly when it is the halfOpenMax-th success of that period.
C10HalfOpenClosesAtMax ==
  /\ cb.state = StateHalfOpen =>
       cbHoSucc < cb.halfOpenMax /\ cbHoRun < cb.halfOpenMax
  /\ CbRecorded(StateHalfOpen, TRUE) =>
       (cb.state = StateClosed <=> cbHoSucc >= cb.halfOpenMax)

\* C10 witness: the second success of a half-open period closed a breaker of
\* halfOpenMax 2.
C10Witness ==
  /\ CbRecorded(StateHalfOpen, TRUE)
  /\ cb.state = StateClosed
  /\ cb.halfOpenMax >= 2
  /\ cbHoRun = cb.halfOpenMax

\* C11 as stated: at most halfOpenMax calls admitted as half-open probes are
\* in flight at the same time, and a call that arrives at a HalfOpen breaker
\* when halfOpenMax probes are in flight is rejected.
C11HalfOpenInFlightBounded ==
  Cardinality({p \in Procs : cbPc[p] = "probe"}) <= cb.halfOpenMax


(***************************************************************************)
(* Claims about the proxy path (checked under SpecProxy).  A body          *)
(* <<"body", g>> is the body goroutine g's executeRequest received for the *)
(* request upstream[g].                                                    *)
(***************************************************************************)
PxKey(h) == ReqKey(pxReq[h].method, pxReq[h].path, pxReq[h].body)
PxLeading(h) ==
  pxPc[h] \in {"innerDo", "innerWait", "allow", "upstream", "innerDone", "outerDone"}
PxCalledUpstream == {h \in Handlers : upstream[h] # NoReq}

C3OnlyExactDuplicatesShare ==
  \A h \in Handlers :
    /\ pxOuter[h] # NoCall => pxReq[pxOuter[h]] = pxReq[h]
    /\ pxInner[h] # NoCall => pxReq[pxInner[h]] = pxReq[h]

\* C7: a request whose breaker call arrived while the breaker was Open and
\* less than timeout after the last failure is rejected with ErrCircuitOpen,
\* sends nothing upstream and is answered 502, whatever its path.
C7OpenRejectsEveryPath ==
  \A h \in Handlers :
    pxSeen[h] = "open-within-timeout" =>
      /\ upstream[h] = NoReq
      /\ pxPc[h] # "upstream"
      /\ pxRecs.inner[h].err = ErrCircuitOpen
      /\ pxPc[h] = "done" => pxResp[h] = Response(502, "none", FALSE, Nil)

\* C7 witness: a request was answered 502 without an upstream call because a
\* request for a different path had failed and opened the breaker.
C7Witness ==
  \E g, h \in Handlers :
    /\ pxSeen[h] = "open-within-timeout"
    /\ pxPc[h] = "done" /\ pxResp[h].status = 502 /\ upstream[h] = NoReq
    /\ upstream[g] # NoReq /\ upstream[g].path # pxReq[h].path
    /\ pxRecs.inner[g].err = <<"error", g>>

\* The requests answered 200 X-Cache: MISS for req so far, and their bodies.
PxMissAnswered(req) ==
  {g \in Handlers : pxPc[g] = "done" /\ pxReq[g] = req /\ pxResp[g].xcache = "MISS"}
PxCacheKey(req) == GenerateKey(req.method, req.path, req.body)
PxMissBodies(req) == {pxResp[g].body : g \in PxMissAnswered(req)}

RECURSIVE SumSizes(_)
SumSizes(items) ==
  IF items = << >> THEN 0 ELSE Len(items[1].value) + SumSizes(Tail(items))

\* C16: after every operation the number of stored entries is at most the
\* capacity fixed at construction.
C16CountWithinCapacity ==
  /\ Len(mem.items) <= mem.capacity
  /\ Cardinality(MemKeysOf(mem)) = Len(mem.items)

\* C16 witness: a Set of a new key into a full cache left it full.
C16Witness ==
  /\ memEv.op = "set" /\ memEv.full
  /\ Len(mem.items) = mem.capacity
  /\ mem.capacity >= 2

\* C17: after every operation the bytes counter equals the sum of len(value)
\* over the stored entries (and each entry's size is the length of its value).
C17BytesAreSumOfValues ==
  /\ mem.totalBytes = SumSizes(mem.items)
  /\ \A i \in 1..Len(mem.items) : mem.items[i].size = Len(mem.items[i].value)

\* C17 witness: a Get removed an expired entry while another entry stayed, and
\* the counter is the length of what stayed.
C17Witness ==
  /\ memEv.op = "get" /\ memEv.expired
  /\ Len(mem.items) >= 1
  /\ mem.totalBytes = SumSizes(mem.items) /\ mem.totalBytes > 0

\* C18: the entries are kept in the order of their last Set or successful Get,
\* latest first, and a Set that inserts a new key into a full cache removes
\* exactly one entry: the one whose last Set or successful Get is the oldest.
C18EvictsLeastRecentlyUsed ==
  /\ [i \in 1..Len(mem.items) |-> mem.items[i].key] = memUse
  /\ (memEv.op = "set" /\ memEv.full) =>
       /\ memEv.removed = {memEv.oldest}
       /\ memEv.key \in MemKeysOf(mem)
  /\ (memEv.op = "set" /\ ~memEv.full) => memEv.removed = {}

\* C18 witness: with capacity 2 and k1, k2 stored, k2 the least recently used,
\* the Set of k3 removed k2 and nothing else.
C18Witness ==
  /\ memEv.op = "set" /\ memEv.full /\ memEv.key = "k3"
  /\ mem.capacity = 2
  /\ memEv.oldest = "k2" /\ memEv.removed = {"k2"}
  /\ [i \in 1..Len(mem.items) |-> mem.items[i].key] = <<"k3", "k1">>

(***************************************************************************)
(* Claims about the LayeredCache, checked under SpecCache.                 *)
(***************************************************************************)
\* a Get has just returned to a caller who began it while the last Set of its
\* key stood: no later Set or Delete of the key has begun, the expiry of
\* neither tier has been reached, and the durable cache has not failed
LcGetUnderSet ==
  lcRet.kind = "get" /\ lcRet.expect # NoValue /\ lcRet.why # "error"

\* C13: when no two calls overlap, a Get(key) that follows a completed
\* Set(key, v), with no Set or Delete of the key and no expiry in between,
\* returns v, whatever calls on other keys were made in between.
C13RoundTrip ==
  (LcGetUnderSet /\ ~lcOverlap) => (lcRet.ok /\ lcRet.value = lcRet.expect)

\* The value comes back from the durable cache after a Set of the other key
\* pushed it out of L1.
C13Witness ==
  /\ LcGetUnderSet /\ ~lcOverlap
  /\ lcRet.key = "k1" /\ lcRet.why = "l2" /\ lcRet.value = <<"b", "b">>
  /\ "k2" \in DOMAIN db

\* C14: a Get(key) that begins after a successful Set(key, v) has returned
\* returns v (until a later Set or Delete of the key, or expiry), also when
\* other Gets of the key were in progress while the Set ran.
C14SetObservedAfterReturn ==
  LcGetUnderSet => (lcRet.ok /\ lcRet.value = lcRet.expect)

\* C15: a Get of the memory cache that finds an entry whose expiry has passed
\* reports a miss and removes the entry; a Get of the durable cache that
\* finds a row whose expiry has passed reports a miss; the LayeredCache
\* returns neither.
C15ExpiredIsMiss ==
  /\ (memEv.op = "get" /\ memEv.expired) =>
       (~memEv.ok /\ memEv.key \notin MemKeysOf(mem))
  /\ (lcEv.step = "l1get" /\ memEv.expired) =>
       (lcPc[lcEv.p] = "l2get" /\ lcRet = NoRes)
  /\ ( /\ lcEv.step = "l2get"
       /\ lcEv.key \in DOMAIN db
       /\ After(now, db[lcEv.key].expiresAt) ) =>
       (lcPc[lcEv.p] \in {"l2del", "idle"} /\ ~lcRet.ok)
  /\ lcEv.step = "l2del" =>
       (lcRet.kind = "get" /\ ~lcRet.ok /\ lcRet.value = NoValue)

\* One Get found the entry expired in L1 and then the row expired in L2.
C15Witness ==
  /\ memEv.op = "get" /\ memEv.expired /\ memEv.key = "k1"
  /\ lcEv.step = "l2del" /\ lcEv.key = "k1"
  /\ lcRet.why = "expired"

\* C19: a Set whose durable write fails returns the error and leaves the
\* memory cache as it was; a Set whose durable write succeeds then puts the
\* value in the memory cache with expiry now + c.ttl and returns nil.
C19DurableFirst ==
  [][ /\ (lcEv'.step = "l2set" /\ lcPc'[lcEv'.p] = "idle") =>
          /\ lcRet'.kind = "set" /\ ~lcRet'.ok /\ lcRet'.why = "error"
          /\ mem' = mem /\ db' = db
      /\ (lcEv'.step = "l2set" /\ lcPc'[lcEv'.p] # "idle") =>
          /\ lcPc'[lcEv'.p] = "l1set" /\ mem' = mem
          /\ db'[lcEv'.key] = [value |-> lcOp'[lcEv'.p].value,
                               expiresAt |-> now + lcTtl.l2]
      /\ (lcEv'.step = "l1set" /\ lcEv' # lcEv) =>
          /\ lcPc[lcEv'.p] = "l1set" /\ lcPc'[lcEv'.p] = "idle"
          /\ lcRet'.kind = "set" /\ lcRet'.ok
          /\ mem'.items[1].key = lcEv'.key
          /\ mem'.items[1].value = lcOp[lcEv'.p].value
          /\ mem'.items[1].expiresAt = now + lcTtl.l1 ]_vars

\* A Set of a new value for a key L1 holds has failed; L1 holds the old value.
C19Witness ==
  /\ lcEv.step = "l2set" /\ lcRet.kind = "set" /\ ~lcRet.ok
  /\ lcRet.key = "k1" /\ lcRet.value = <<"b", "b">>
  /\ Len(mem.items) = 1 /\ mem.items[1].key = "k1" /\ mem.items[1].value = <<"a">>

\* C20: when a Get that missed L1 and hit the durable cache returns, L1 holds
\* the value: a Get of L1 at that moment returns it.
C20PromotedOnReturn ==
  lcEv.step = "promote" =>
    /\ lcRet.kind = "get" /\ lcRet.ok /\ lcRet.why = "l2"
    /\ MemGet(mem, lcEv.key, now).ok
    /\ MemGet(mem, lcEv.key, now).value = lcRet.value

\* The row written before the start has been promoted.
C20Witness ==
  /\ lcEv.step = "promote" /\ lcEv.key = "k1"
  /\ lcRet.value = <<"a">>
  /\ lcCalls = 1

(***************************************************************************)
(* Claims about the token bucket, checked under SpecBucket.                *)
(***************************************************************************)
RECURSIVE TbAdmitted(_, _)
\* the number of allow calls that returned true at the times from..to
TbAdmitted(from, to) ==
  IF from > to THEN 0 ELSE tbAdmits[from] + TbAdmitted(from + 1, to)

\* C21: in every window of time the allow calls that returned true took at
\* most capacity + refillRate x (length of the window) tokens; of the calls
\* made at the time the bucket was created, the first capacity ones (and no
\* other) returned true; a call returns false only when less than one token
\* is left.
C21TokenBucketBound ==
  /\ \A from \in 0..now : \A to \in from..now :
       TbAdmitted(from, to) * TokUnit <= tb.capacity + tb.refillRate * (to - from)
  /\ now = 0 =>
       tbAdmits[0] * TokUnit =
         (IF tbCalls * TokUnit <= tb.capacity THEN tbCalls * TokUnit ELSE tb.capacity)
  /\ (tbEv.op = "allow" /\ ~tbEv.ok) => tb.tokens < TokUnit
  /\ (tbEv.op = "allow" /\ tbEv.ok) => tb.tokens <= tb.capacity - TokUnit

\* A full bucket of two tokens was emptied at time 0, a call was denied, and a
\* later call was admitted on refilled tokens.
C21Witness ==
  /\ tb.capacity = 2 * TokUnit
  /\ tbAdmits[0] = 2 /\ tbCalls >= 4
  /\ now >= 2 /\ TbAdmitted(1, now) >= 1
  /\ tbEv.ok

(***************************************************************************)
(* Claims about the handler chain (SpecGate).                              *)
(***************************************************************************)
InTrace(trace, name) == \E i \in 1..Len(trace) : trace[i] = name

Before(trace, a, b) ==
  \E i, j \in 1..Len(trace) : i < j /\ trace[i] = a /\ trace[j] = b

\* C22: in the rate limiter the IP bucket is asked before the key bucket; a
\* request the IP bucket denies is answered 429 and leaves the key buckets as
\* they were; the key bucket is asked only for a request with an X-API-Key
\* header.
C22IpBeforeKey ==
  [][gtEv'.op = "serve" =>
       /\ InTrace(gtEv'.trace, "keybucket") =>
            /\ Before(gtEv'.trace, "ipbucket", "keybucket")
            /\ gtEv'.req.apiKey # ""
       /\ (InTrace(gtEv'.trace, "ipbucket") /\ gtEv'.ipEmpty) =>
            /\ gtEv'.resp.status = 429
            /\ ~InTrace(gtEv'.trace, "keybucket")
            /\ keyLimiters' = keyLimiters]_vars

\* a request with a key header met an empty IP bucket while its key bucket was
\* empty too
C22Witness ==
  /\ gtEv.op = "serve"
  /\ gtEv.req.apiKey # ""
  /\ gtEv.ipEmpty
  /\ InTrace(gtEv.trace, "ipbucket")
  /\ gtEv.resp.status = 429
  /\ gtEv.req.apiKey \in DOMAIN keyLimiters
  /\ ~Allow(keyLimiters[gtEv.req.apiKey], now).ok

\* C23: the rate limiter is the first check a request meets, before the
\* content-type check, the body-size cap and the whitelist, so a request that
\* meets an empty IP bucket is answered 429 whatever its body, content type
\* or path.
C23RateLimitFirst ==
  gtEv.op = "serve" =>
    /\ gtEv.trace[1] = "ipbucket"
    /\ gtEv.ipEmpty => gtEv.resp.status = 429

\* C24: a request whose body is read by the proxy handler goes on to the cache
\* when the body has at most MaxBody bytes, and a body of more than MaxBody
\* bytes is answered 413, whether the length was declared or not and however
\* the body reader reports its end.
C24BodyCapBoundary ==
  gtEv.op = "serve" =>
    /\ ( /\ Len(gtEv.req.body) > MaxBody
         /\ \/ InTrace(gtEv.trace, "readbody")
            \/ gtEv.trace[Len(gtEv.trace)] = "bodysize" )
         => gtEv.resp.status = 413
    /\ (Len(gtEv.req.body) <= MaxBody /\ InTrace(gtEv.trace, "readbody"))
         => (gtEv.resp.status # 413 /\ InTrace(gtEv.trace, "cacheget"))

\* C25: a request whose path is not whitelisted is answered 403 by the proxy
\* handler, and serving it reads no cache entry, writes none and calls neither
\* the circuit breaker nor the upstream, also when the cache holds an entry
\* under its key.
C25PolicyDenies ==
  [][(gtEv'.op = "serve" /\ gtEv'.req.route = "api"
        /\ ~IsEndpointWhitelisted(gtEv'.req.path)) =>
       /\ InTrace(gtEv'.trace, "policy") => gtEv'.resp.status = 403
       /\ gtEv'.resp.status # 200
       /\ ~InTrace(gtEv'.trace, "cacheget")
       /\ ~InTrace(gtEv'.trace, "cacheset")
       /\ ~InTrace(gtEv'.trace, "breaker")
       /\ ~InTrace(gtEv'.trace, "upstream")
       /\ ~gtEv'.up.sent
       /\ gtCache' = gtCache
       /\ cb' = cb]_vars

\* a request outside the whitelist reached the proxy handler while the cache
\* held an entry under its key
C25Witness ==
  /\ gtEv.op = "serve"
  /\ gtEv.req.route = "api"
  /\ ~IsEndpointWhitelisted(gtEv.req.path)
  /\ gtEv.cached
  /\ InTrace(gtEv.trace, "policy")
  /\ gtEv.resp.status = 403

C30SsrfGate ==
  [][(gtEv'.op = "serve" /\ gtSsrf) =>
       /\ InTrace(gtEv'.trace, "upstream") =>
            Before(gtEv'.trace, "validated", "upstream")
       /\ gtEv'.up.sent => InTrace(gtEv'.trace, "validated")
       /\ (InTrace(gtEv'.trace, "ssrf") /\ ~InTrace(gtEv'.trace, "validated")) =>
            /\ gtEv'.resp.status = 403
            /\ ~InTrace(gtEv'.trace, "breaker")
            /\ ~InTrace(gtEv'.trace, "upstream")
            /\ ~InTrace(gtEv'.trace, "cacheset")
            /\ ~gtEv'.up.sent
            /\ gtCache' = gtCache
            /\ cb' = cb]_vars

\* the validator rejected the URL of a request the breaker would have admitted
C30Witness ==
  /\ gtEv.op = "serve"
  /\ gtSsrf
  /\ InTrace(gtEv.trace, "ssrf")
  /\ ~InTrace(gtEv.trace, "validated")
  /\ gtEv.resp.status = 403
  /\ cb.state = StateClosed

\* C27: requests that differ in method, path or body never share a cache
\* entry: a response served from the cache is the answer the upstream gave to
\* the same (method, path, body).
C27KeySeparatesRequests ==
  (gtEv.op = "serve" /\ gtEv.resp.xcache = "HIT") =>
    gtEv.resp.body = UpstreamBody(gtEv.req.method, gtEv.req.path, gtEv.req.body)

\* C28: every response of the daemon, whatever its status, carries the five
\* security headers.
C28SecurityHeadersAlways ==
  gtEv.op = "serve" => SecurityHeaders \subseteq gtEv.resp.headers

\* C29: every upstream request carries the configured key in its key header,
\* whatever headers the inbound request had.
C29UpstreamKeyFixed ==
  (gtEv.op = "serve" /\ gtEv.up.sent) => gtEv.up.headers["X-Api-Key"] = APIKey

(***************************************************************************)
(* Further claims about the LayeredCache (SpecCache).                      *)
(***************************************************************************)
\* C36: promoting a durable hit into the memory cache does not extend the
\* lifetime of the entry: with calls made one after the other, the entry that
\* Get has just promoted expires no later than the durable row it was read
\* from (stated for a memory ttl that is not longer than the durable ttl).
C36PromotionKeepsExpiry ==
  (~lcOverlap /\ lcTtl.l1 <= lcTtl.l2 /\ lcEv.step = "promote") =>
    LET i == MemIndex(mem, lcEv.key) IN
      /\ i # 0
      /\ lcEv.key \in DOMAIN db
      /\ mem.items[i].expiresAt <= db[lcEv.key].expiresAt

\* C37: when a Delete of a key returns without error and no Set of the key
\* ran beside it, neither tier holds the key, also when a Get of the key was
\* in flight while the Delete ran.
C37DeleteIsFinal ==
  [][\A p \in LcProcs :
       (lcPc[p] = "l2delete" /\ lcPc'[p] = "idle" /\ lcRet'.ok /\ lcOp[p].clean) =>
         /\ MemIndex(mem', lcOp[p].key) = 0
         /\ lcOp[p].key \notin DOMAIN db']_vars

(***************************************************************************)
(* Further claims about the circuit breaker (SpecCB).                      *)
(***************************************************************************)
\* C34: no reachable state of the breaker rejects every future call: whenever
\* no call is in flight, allowRequest admits a call now or once the timeout
\* has passed.
C34NeverRejectsForever ==
  (\A p \in Procs : cbPc[p] = "idle") =>
    \E n \in now..(now + cb.timeout + 1) : AllowRequest(cb, n).ok

\* C35: the breaker goes from HalfOpen to Closed only on the result of a call
\* that was admitted while it was HalfOpen, never on the late result of a call
\* admitted while it was Closed.
C35ClosedByProbesOnly ==
  [][(cb.state = StateHalfOpen /\ cb'.state = StateClosed) =>
       \E p \in Procs : cbPc[p] = "probe" /\ cbPc'[p] = "idle"]_vars

(***************************************************************************)
(* Further claims about the handler chain (SpecGate).                      *)
(***************************************************************************)
\* C32: every request on the proxy path that is answered with an error status
\* adds exactly one to the request counter and one to the error counter.
C32ErrorsCounted ==
  (gtEv.op = "serve" /\ gtEv.req.route = "api" /\ gtEv.resp.status >= 400) =>
    gtEv.metrics = [requests |-> 1, errors |-> 1]

\* C40: while the breaker is Open, /health answers 503 with status "degraded"
\* and upstream_client "circuit_open"; it answers 200 with status "ok" only
\* when the database check passed and the breaker is not Open.
C40HealthReflectsBreaker ==
  (gtEv.op = "serve" /\ InTrace(gtEv.trace, "health")) =>
    /\ cb.state = StateOpen =>
         /\ gtEv.health.upstream = "circuit_open"
         /\ gtEv.health.status = "degraded"
         /\ gtEv.resp.status = 503
    /\ (gtEv.resp.status = 200 /\ gtEv.health.status = "ok") =>
         /\ gtEv.health.database = "ok"
         /\ cb.state # StateOpen

\* C39: shutdown ordering.  The scheduler goroutine neither enters runCleanup
\* nor runs a cleanup statement on the durable cache once the cache has been
\* closed, and it does not enter runCleanup once Scheduler.Stop has returned.
C39JanitorStoppedFirst ==
  /\ jnEv.op \in {"begin", "exec"} => ~jnEv.closed
  /\ jnEv.op = "begin" => ~jnEv.stopped

RECURSIVE RlAdmitted(_, _)
\* the allowIP calls that returned true at the times from..to
RlAdmitted(from, to) ==
  IF from > to THEN 0 ELSE rlAdmits[from] + RlAdmitted(from + 1, to)

\* C38: eviction of idle buckets keeps the bound.  Where a bucket left idle
\* for the idle limit has refilled to its capacity, the calls of one address
\* that returned true within any window of time took at most
\* capacity + rate x (length of the window) tokens, whatever cleanup removed
\* meanwhile and whatever call was in flight.
C38EvictionKeepsBound ==
  rlCfg.rate * IdleLimit >= rlCfg.burst * TokUnit =>
    \A from \in 0..now : \A to \in from..now :
      RlAdmitted(from, to) * TokUnit <=
        rlCfg.burst * TokUnit + rlCfg.rate * (to - from)

\* C31: layered stats accounting.  When no Get is in progress, Stats reports
\* as hits the number of Get calls that returned a value and as misses the
\* number that returned an error, concurrent calls included.
C31StatsCountGets ==
  (\A p \in StProcs : stPc[p] = "idle") =>
    /\ LayeredStats(stCnt).hits = stDone.value
    /\ LayeredStats(stCnt).misses = stDone.miss

\* C33: cache integrity.  The body of every 200 response to a request, and
\* every value stored in the cache under the key of a (method, path, body),
\* is the body the upstream returned to a call made with exactly that method,
\* path and body.
C33CacheIntegrity ==
  /\ \A h \in Handlers :
       (pxPc[h] = "done" /\ pxResp[h].status = 200) =>
         \E g \in Handlers : pxResp[h].body = <<"body", g>> /\ upstream[g] = pxReq[h]
  /\ \A k \in DOMAIN cache :
       \E g \in Handlers :
         /\ cache[k] = <<"body", g>>
         /\ upstream[g] # NoReq
         /\ GenerateKey(upstream[g].method, upstream[g].path, upstream[g].body) = k

====
